---- MODULE Spec2Model ----
(***************************************************************************)
(* Model of the STDF ingestion pipeline (stdf_loader.py): load_stdf drives *)
(* a StdfToDbSink over the decoded record stream inside one SQLAlchemy     *)
(* session and commits once at end of stream.                              *)
(*                                                                         *)
(* Conventions                                                             *)
(*   - Python None / SQL NULL is the empty set, a present value v is {v}.  *)
(*   - A Python str is a sequence of one-character strings; " " is the    *)
(*     only whitespace character drawn by the inputs.                      *)
(*   - An ORM object reference held by the sink is the row's id.           *)
(*   - hist is a history variable: the records the sink has been handed in *)
(*     the current run, in arrival order.  No handler reads it.            *)
(***************************************************************************)
EXTENDS Integers, Sequences, FiniteSets, TLC

VARIABLES
    phase,      \* "idle" | "parsing" | "committed" | "failed" | "notfound"
                \* | "unreadable"
    runs,       \* number of load_stdf calls started so far
    committed,  \* the durable store: what a new session sees
    db,         \* the open session's view: committed rows + flushed writes
    pending,    \* session.add()-ed rows not yet flushed (Bin, TestItem)
    sink,       \* the StdfToDbSink instance's fields
    hist,       \* history: records handed to the sink in this run
    peers,      \* two load_stdf calls running at once on one store, at
                \* the grain of the Company lookup, insert and commit
    time_t_bits \* width of the C time_t of the interpreter's platform

vars == <<phase, runs, committed, db, pending, sink, hist, peers, time_t_bits>>

---------------------------------------------------------------------------
(* Optional values                                                         *)

None == {}

Some(v) == {v}

Val(o) == CHOOSE v \in o : TRUE

\* Python `o or d` for an int-or-None o: None and 0 are both falsy.
OrInt(o, d) == IF o = None \/ Val(o) = 0 THEN d ELSE Val(o)

\* Python `o or ""` for a str-or-None o.
OrStr(o) == IF o = None THEN <<>> ELSE Val(o)

---------------------------------------------------------------------------
(* Strings                                                                 *)

RECURSIVE LStrip(_)
LStrip(s) == IF s # <<>> /\ Head(s) = " " THEN LStrip(Tail(s)) ELSE s

RECURSIVE RStrip(_)
RStrip(s) ==
    IF s # <<>> /\ s[Len(s)] = " " THEN RStrip(SubSeq(s, 1, Len(s) - 1)) ELSE s

\* str.strip()
Strip(s) == RStrip(LStrip(s))

\* s[:n]
Take(s, n) == IF Len(s) <= n THEN s ELSE SubSeq(s, 1, n)

\* Python `s or d` for a str s.
OrDefault(s, d) == IF s = <<>> THEN d ELSE s

DEFAULT_COMPANY ==
    <<"D","e","f","a","u","l","t","C","o","m","p","a","n","y">>

DEFAULT_PRODUCT == <<>>

DEFAULT_STAGE == <<>>

DefaultProductName ==
    <<"D","e","f","a","u","l","t","P","r","o","d","u","c","t">>

DefaultStageName == <<"D","e","f","a","u","l","t","S","t","a","g","e">>

DefaultProgramName ==
    <<"D","e","f","a","u","l","t","P","r","o","g","r","a","m">>

UnknownLotName == <<"U","N","K","N","O","W","N","_","L","O","T">>

UnknownWaferName == <<"U","N","K","N","O","W","N","_","W","A","F","E","R">>

PTR == <<"P","T","R">>

FTR == <<"F","T","R">>

\* Column widths the loader truncates to.
MetaLen == 64

NameLen == 255

TextLen == 512

EquipLen == 128

\* Reserved values.
AllSites == 255

CoordSentinel == -32768

SoftBinSentinel == 65535

FailBit == 128

---------------------------------------------------------------------------
(* Timestamps                                                              *)

\* A timestamp is an unsigned 32-bit second count (STDF U4).  It is held in
\* a 32-bit signed integer: a count v >= 2^31 is held as v - 2^32, so the
\* counts with the top bit set are the negative values.
TopBitSet(v) == v < 0

\* datetime.utcfromtimestamp(int(val)) raises OverflowError when the count
\* does not fit the platform's signed time_t; for a U4 that is a count with
\* the top bit set where time_t has 32 bits.  OverflowError is neither an
\* OSError nor a ValueError, so line 50 does not catch it.
TimeOverflows(val) ==
    /\ val # None
    /\ TopBitSet(Val(val))
    /\ time_t_bits = 32

\* _stdf_time_to_datetime where it returns: None and 0 give None, any other
\* count converts to its instant (a U4 is at most the year 2106, so the
\* ValueError and OSError of line 50 are not reached from U4 input).
StdfTimeToDatetime(val) ==
    IF val = None \/ Val(val) = 0 THEN None
    ELSE Some([utc |-> Val(val)])

---------------------------------------------------------------------------
(* The store                                                               *)

EmptyDb ==
    [ company         |-> {},
      product         |-> {},
      stage           |-> {},
      test_program    |-> {},
      lot             |-> {},
      wafer           |-> {},
      die             |-> {},
      bin             |-> {},
      test_suite      |-> {},
      test_definition |-> {},
      test_item       |-> {},
      site_equipment  |-> {} ]

MaxOf(S) == CHOOSE m \in S : \A x \in S : x <= m

\* The integer primary key the database assigns to the next inserted row.
NextId(rows) == IF rows = {} THEN 1 ELSE MaxOf({r.id : r \in rows}) + 1

\* The row with primary key id.
RowOf(rows, id) == CHOOSE r \in rows : r.id = id

\* query(...).filter_by(...).first(): the matching row's id, or None.
First(matching) ==
    IF matching = {} THEN None
    ELSE Some(CHOOSE i \in {r.id : r \in matching} :
                 \A r \in matching : i <= r.id)

---------------------------------------------------------------------------
(* The session: pending rows and flush                                     *)

\* uq_die_test of TestItem.
ItemKey(r) == <<r.die_id, r.test_num, r.test_type>>

PendingItems(p) == {i \in 1..Len(p) : p[i].tbl = "test_item"}

\* Whether the INSERTs of a flush pass the unique constraint uq_die_test
\* (the only constraint the sink's own lookups do not guard).
FlushOk(d, p) ==
    /\ \A i, j \in PendingItems(p) :
          i # j => ItemKey(p[i].row) # ItemKey(p[j].row)
    /\ \A i \in PendingItems(p) : \A r \in d.test_item :
          ItemKey(p[i].row) # ItemKey(r)

WithId(row, id) == [k \in DOMAIN row \cup {"id"} |->
                       IF k = "id" THEN id ELSE row[k]]

\* One pending row inserted: the database assigns the next id of its table.
InsertRow(d, e) ==
    [d EXCEPT ![e.tbl] = @ \cup {WithId(e.row, NextId(@))}]

\* session.flush(): the pending rows inserted in the order they were added.
RECURSIVE Flushed(_, _)
Flushed(d, p) ==
    IF p = <<>> THEN d ELSE Flushed(InsertRow(d, Head(p)), Tail(p))

---------------------------------------------------------------------------
(* StdfToDbSink                                                            *)

EmptyMap == [k \in {} |-> None]

\* dict[k] = v
Put(m, k, v) == [x \in DOMAIN m \cup {k} |-> IF x = k THEN v ELSE m[x]]

\* StdfToDbSink.__init__
NewSink(company_name, product_name, stage_name) ==
    [ company_name      |-> OrDefault(OrStr(company_name), DEFAULT_COMPANY),
      product_name      |-> OrDefault(OrStr(product_name), DEFAULT_PRODUCT),
      stage_name        |-> OrDefault(OrStr(stage_name), DEFAULT_STAGE),
      company           |-> None,
      product           |-> None,
      stage             |-> None,
      test_program      |-> None,
      lot               |-> None,
      wafer             |-> None,
      current_die_key   |-> None,
      current_die       |-> None,
      ptr_ftr_buffer    |-> <<>>,
      wafer_id_current  |-> None,
      head_num          |-> 1,
      site_num          |-> 1,
      hard_bin_names    |-> EmptyMap,
      soft_bin_names    |-> EmptyMap,
      test_num_to_suite |-> EmptyMap ]

\* Mutant: the summary entry wins over the per-site entry.
GetBinNameSummaryFirst(names, head_num, site_num, bin_num) ==
    IF <<AllSites, AllSites, bin_num>> \in DOMAIN names
    THEN names[<<AllSites, AllSites, bin_num>>]
    ELSE IF <<head_num, site_num, bin_num>> \in DOMAIN names
    THEN names[<<head_num, site_num, bin_num>>]
    ELSE <<>>

\* _get_bin_name: the exact (head, site) entry, else the (255, 255) summary
\* entry, else "".  names maps <<head, site, bin>> to a name.
GetBinName(names, head_num, site_num, bin_num) ==
    IF <<head_num, site_num, bin_num>> \in DOMAIN names
    THEN names[<<head_num, site_num, bin_num>>]
    ELSE IF <<AllSites, AllSites, bin_num>> \in DOMAIN names
    THEN names[<<AllSites, AllSites, bin_num>>]
    ELSE <<>>

\* Mutant: the row is inserted whether or not the lookup finds one.
GetOrCreateAlwaysInserting(d, tbl, matching, row) ==
    [db |-> [d EXCEPT ![tbl] = @ \cup {WithId(row, NextId(@))}],
     id |-> NextId(d[tbl])]

\* Resolve-or-create of one hierarchy level: the store after it and the id.
GetOrCreate(d, tbl, matching, row) ==
    IF First(matching) # None
    THEN [db |-> d, id |-> Val(First(matching))]
    ELSE [db |-> [d EXCEPT ![tbl] = @ \cup {WithId(row, NextId(@))}],
          id |-> NextId(d[tbl])]

\* _get_or_create_company_product_stage_program
\* Mutant: the names are used as they arrive, without stripping.
GetOrCreateHierarchyUnstripped(d, s, job_nam, job_rev, part_typ, mode_cod) ==
    LET c == GetOrCreate(d, "company",
                 {r \in d.company : r.name = s.company_name},
                 [name |-> s.company_name])
        product_name ==
            OrDefault(OrDefault(part_typ, OrDefault(s.product_name, <<>>)),
                      DefaultProductName)
        p == GetOrCreate(c.db, "product",
                 {r \in c.db.product :
                     r.company_id = c.id /\ r.name = product_name},
                 [company_id |-> c.id, name |-> product_name])
        stage_name ==
            OrDefault(OrDefault(mode_cod, OrDefault(s.stage_name, <<>>)),
                      DefaultStageName)
        g == GetOrCreate(p.db, "stage",
                 {r \in p.db.stage :
                     r.product_id = p.id /\ r.name = stage_name},
                 [product_id |-> p.id, name |-> stage_name])
        prog_name == OrDefault(job_nam, DefaultProgramName)
        prog_rev  == OrDefault(job_rev, <<>>)
        t == GetOrCreate(g.db, "test_program",
                 {r \in g.db.test_program :
                     r.stage_id = g.id /\ r.name = prog_name
                        /\ r.revision = prog_rev},
                 [stage_id |-> g.id, name |-> prog_name, revision |-> prog_rev])
    IN  [db   |-> t.db,
         sink |-> [s EXCEPT !.company = Some(c.id), !.product = Some(p.id),
                            !.stage = Some(g.id), !.test_program = Some(t.id)]]

GetOrCreateCompanyProductStageProgram(d, s, job_nam, job_rev, part_typ, mode_cod) ==
    LET c == GetOrCreate(d, "company",
                 {r \in d.company : r.name = s.company_name},
                 [name |-> s.company_name])
        product_name ==
            OrDefault(Strip(OrDefault(part_typ, OrDefault(s.product_name, <<>>))),
                      DefaultProductName)
        p == GetOrCreate(c.db, "product",
                 {r \in c.db.product :
                     r.company_id = c.id /\ r.name = product_name},
                 [company_id |-> c.id, name |-> product_name])
        stage_name ==
            OrDefault(Strip(OrDefault(mode_cod, OrDefault(s.stage_name, <<>>))),
                      DefaultStageName)
        g == GetOrCreate(p.db, "stage",
                 {r \in p.db.stage :
                     r.product_id = p.id /\ r.name = stage_name},
                 [product_id |-> p.id, name |-> stage_name])
        prog_name == OrDefault(Strip(job_nam), DefaultProgramName)
        prog_rev  == OrDefault(Strip(job_rev), <<>>)
        t == GetOrCreate(g.db, "test_program",
                 {r \in g.db.test_program :
                     r.stage_id = g.id /\ r.name = prog_name
                        /\ r.revision = prog_rev},
                 [stage_id |-> g.id, name |-> prog_name, revision |-> prog_rev])
    IN  [db   |-> t.db,
         sink |-> [s EXCEPT !.company = Some(c.id), !.product = Some(p.id),
                            !.stage = Some(g.id), !.test_program = Some(t.id)]]

\* The Lot row _on_mir inserts when its lookup finds none.
NewLotRow(test_program_id, lot_id, fd) ==
    [ test_program_id |-> test_program_id,
      lot_id    |-> lot_id,
      part_typ  |-> Strip(OrStr(fd.PART_TYP)),
      setup_t   |-> StdfTimeToDatetime(fd.SETUP_T),
      start_t   |-> StdfTimeToDatetime(fd.START_T),
      finish_t  |-> None,
      tstr_typ  |-> Take(Strip(OrStr(fd.TSTR_TYP)), MetaLen),
      node_nam  |-> Take(Strip(OrStr(fd.NODE_NAM)), MetaLen),
      facil_id  |-> Take(Strip(OrStr(fd.FACIL_ID)), MetaLen),
      floor_id  |-> Take(Strip(OrStr(fd.FLOOR_ID)), MetaLen),
      stat_num  |-> fd.STAT_NUM,
      exec_typ  |-> Take(Strip(OrStr(fd.EXEC_TYP)), MetaLen),
      exec_ver  |-> Take(Strip(OrStr(fd.EXEC_VER)), MetaLen) ]

\* Mutant: the lookup's hit is refreshed from the record (an overwriting
\* upsert).
ResolveLotOverwriting(d, test_program_id, lot_id, fd) ==
    LET hit == {r \in d.lot : r.test_program_id = test_program_id
                                 /\ r.lot_id = lot_id}
    IN  IF hit = {}
        THEN GetOrCreate(d, "lot", hit, NewLotRow(test_program_id, lot_id, fd))
        ELSE [db |-> [d EXCEPT !.lot =
                        {IF r \in hit
                         THEN WithId(NewLotRow(test_program_id, lot_id, fd), r.id)
                         ELSE r : r \in @}],
              id |-> Val(First(hit))]

\* The lookup-or-insert of the Lot in _on_mir (lines 275-294).
ResolveLot(d, test_program_id, lot_id, fd) ==
    GetOrCreate(d, "lot",
        {r \in d.lot : r.test_program_id = test_program_id
                          /\ r.lot_id = lot_id},
        NewLotRow(test_program_id, lot_id, fd))

\* Mutant: the bin-name registries survive the lot-start.
ResetScopeKeepingBinNames(s, lot) ==
    [s EXCEPT !.lot = Some(lot), !.wafer = None, !.wafer_id_current = None,
              !.current_die = None, !.current_die_key = None,
              !.ptr_ftr_buffer = <<>>, !.test_num_to_suite = EmptyMap]

\* Mutant: the lot-start keeps the buffered results.
ResetScopeKeepingBuffer(s, lot) ==
    [s EXCEPT !.lot = Some(lot), !.wafer = None, !.wafer_id_current = None,
              !.current_die = None, !.current_die_key = None,
              !.hard_bin_names = EmptyMap, !.soft_bin_names = EmptyMap,
              !.test_num_to_suite = EmptyMap]

\* Mutant: the test-number registry survives the lot-start.
ResetScopeKeepingSuites(s, lot) ==
    [s EXCEPT !.lot = Some(lot), !.wafer = None, !.wafer_id_current = None,
              !.current_die = None, !.current_die_key = None,
              !.ptr_ftr_buffer = <<>>, !.hard_bin_names = EmptyMap,
              !.soft_bin_names = EmptyMap]

\* Mutant: the lot-start keeps the current wafer.
ResetScopeKeepingWafer(s, lot) ==
    [s EXCEPT !.lot = Some(lot),
              !.current_die = None, !.current_die_key = None,
              !.ptr_ftr_buffer = <<>>, !.hard_bin_names = EmptyMap,
              !.soft_bin_names = EmptyMap, !.test_num_to_suite = EmptyMap]

\* The per-lot transient state _on_mir resets (lines 295-303).
ResetScope(s, lot) ==
    [s EXCEPT !.lot = Some(lot), !.wafer = None, !.wafer_id_current = None,
              !.current_die = None, !.current_die_key = None,
              !.ptr_ftr_buffer = <<>>, !.hard_bin_names = EmptyMap,
              !.soft_bin_names = EmptyMap, !.test_num_to_suite = EmptyMap]

\* The lot identifier _on_mir keys the Lot by (line 260).
LotIdOf(fd) == OrDefault(Strip(OrStr(fd.LOT_ID)), UnknownLotName)

\* _on_mir, on a store whose pending rows are flushed.
\* _on_mir converts SETUP_T and START_T only when it creates the Lot
\* (lines 278-284).
MirOverflows(d, s, fd) ==
    LET h == GetOrCreateCompanyProductStageProgram(d, s,
                 OrStr(fd.JOB_NAM), OrStr(fd.JOB_REV),
                 OrStr(fd.PART_TYP), OrStr(fd.MODE_COD))
    IN  /\ \A r \in h.db.lot :
              ~(r.test_program_id = Val(h.sink.test_program)
                  /\ r.lot_id = LotIdOf(fd))
        /\ (TimeOverflows(fd.SETUP_T) \/ TimeOverflows(fd.START_T))

MirEffect(d, s, fd) ==
    LET lot_id == LotIdOf(fd)
        h == GetOrCreateCompanyProductStageProgram(d, s,
                 OrStr(fd.JOB_NAM), OrStr(fd.JOB_REV),
                 OrStr(fd.PART_TYP), OrStr(fd.MODE_COD))
        l == ResolveLot(h.db, Val(h.sink.test_program), lot_id, fd)
    IN  [db |-> l.db, sink |-> ResetScope(h.sink, l.id)]

\* The Wafer row _on_wir inserts when its lookup finds none; part_cnt and
\* good_cnt take the column default 0.
NewWaferRow(lot, wafer_id, head_num, fd) ==
    [ lot_id   |-> lot,
      wafer_id |-> wafer_id,
      head_num |-> head_num,
      site_grp |-> IF fd.SITE_GRP = None THEN AllSites ELSE Val(fd.SITE_GRP),
      start_t  |-> StdfTimeToDatetime(fd.START_T),
      finish_t |-> None,
      part_cnt |-> Some(0),
      good_cnt |-> Some(0) ]

\* Mutant: a wafer-start always inserts a Wafer row.
WirEffectAlwaysInserting(d, s, fd) ==
    LET wafer_id == OrDefault(Strip(OrStr(fd.WAFER_ID)), UnknownWaferName)
        head_num == OrInt(fd.HEAD_NUM, 1)
        id == NextId(d.wafer)
    IN  [db   |-> [d EXCEPT !.wafer = @ \cup
                     {WithId(NewWaferRow(Val(s.lot), wafer_id, head_num, fd), id)}],
         sink |-> [s EXCEPT !.wafer = Some(id),
                            !.wafer_id_current = Some(wafer_id),
                            !.current_die = None, !.current_die_key = None,
                            !.ptr_ftr_buffer = <<>>]]

\* _on_wir with a current lot, on a store whose pending rows are flushed.
\* Mutant: a wafer-start leaves the open part and its buffer alone.
WirEffectKeepingPart(d, s, fd) ==
    LET wafer_id == OrDefault(Strip(OrStr(fd.WAFER_ID)), UnknownWaferName)
        head_num == OrInt(fd.HEAD_NUM, 1)
        w == GetOrCreate(d, "wafer",
                 {r \in d.wafer : r.lot_id = Val(s.lot)
                      /\ r.wafer_id = wafer_id /\ r.head_num = head_num},
                 NewWaferRow(Val(s.lot), wafer_id, head_num, fd))
    IN  [db   |-> w.db,
         sink |-> [s EXCEPT !.wafer = Some(w.id),
                            !.wafer_id_current = Some(wafer_id)]]

\* _on_wir converts START_T only when it creates the Wafer (lines 317-323).
WirOverflows(d, s, fd) ==
    /\ \A r \in d.wafer :
          ~(r.lot_id = Val(s.lot)
              /\ r.wafer_id = OrDefault(Strip(OrStr(fd.WAFER_ID)), UnknownWaferName)
              /\ r.head_num = OrInt(fd.HEAD_NUM, 1))
    /\ TimeOverflows(fd.START_T)

WirEffect(d, s, fd) ==
    LET wafer_id == OrDefault(Strip(OrStr(fd.WAFER_ID)), UnknownWaferName)
        head_num == OrInt(fd.HEAD_NUM, 1)
        w == GetOrCreate(d, "wafer",
                 {r \in d.wafer : r.lot_id = Val(s.lot)
                      /\ r.wafer_id = wafer_id /\ r.head_num = head_num},
                 NewWaferRow(Val(s.lot), wafer_id, head_num, fd))
    IN  [db   |-> w.db,
         sink |-> [s EXCEPT !.wafer = Some(w.id),
                            !.wafer_id_current = Some(wafer_id),
                            !.current_die = None, !.current_die_key = None,
                            !.ptr_ftr_buffer = <<>>]]

\* The columns _on_wrr writes onto the wafer it holds.
ClosedWaferRow(r, fd) ==
    [r EXCEPT !.finish_t = StdfTimeToDatetime(fd.FINISH_T),
              !.part_cnt = IF fd.PART_CNT # None THEN fd.PART_CNT ELSE @,
              !.good_cnt = IF fd.GOOD_CNT # None THEN fd.GOOD_CNT ELSE @]

\* _on_wrr
WrrEffect(d, s, fd) ==
    [db   |-> IF s.wafer # None
              THEN [d EXCEPT !.wafer =
                       {IF r.id = Val(s.wafer) THEN ClosedWaferRow(r, fd) ELSE r
                           : r \in @}]
              ELSE d,
     sink |-> [s EXCEPT !.wafer_id_current = None]]

\* Mutant: the part-start keeps what the buffer holds.
PirEffectKeepingBuffer(s, fd) ==
    LET head_num == OrInt(fd.HEAD_NUM, 1)
        site_num == OrInt(fd.SITE_NUM, 1)
    IN  [s EXCEPT !.head_num = head_num, !.site_num = site_num,
                  !.current_die_key = Some(<<head_num, site_num>>),
                  !.current_die = None]

\* _on_pir
PirEffect(s, fd) ==
    LET head_num == OrInt(fd.HEAD_NUM, 1)
        site_num == OrInt(fd.SITE_NUM, 1)
    IN  [s EXCEPT !.head_num = head_num, !.site_num = site_num,
                  !.current_die_key = Some(<<head_num, site_num>>),
                  !.current_die = None, !.ptr_ftr_buffer = <<>>]

\* _on_ptr / _on_ftr: the record appended to the buffer, tagged by kind.
BufferResult(s, rec_type_name, fd) ==
    [s EXCEPT !.ptr_ftr_buffer =
        Append(@, [rec_type_name |-> rec_type_name, fd |-> fd])]

\* _on_hbr / _on_sbr: the registry after the record; a record without a
\* head number is dropped, a missing site number becomes 255.
RegisterBinName(names, fd, bin_num, bin_nam) ==
    IF fd.HEAD_NUM = None THEN names
    ELSE LET site_num == IF fd.SITE_NUM = None THEN AllSites
                         ELSE Val(fd.SITE_NUM)
             nam == Strip(OrStr(bin_nam))
         IN  Put(names, <<Val(fd.HEAD_NUM), site_num, bin_num>>,
                 IF nam # <<>> THEN Take(nam, NameLen) ELSE <<>>)

\* A flag byte as the sink normalises it: a list or bytes value gives its
\* first element, or 0 when empty.
FlagByte(flg) ==
    IF flg = None THEN None
    ELSE IF Val(flg).isList
         THEN Some(IF Val(flg).v # <<>> THEN Val(flg).v[1] ELSE 0)
         ELSE Some(Val(flg).v[1])

\* pass_fail: 1 when bit 0x80 of the flag is set, 0 when clear, None when
\* the record carries no flag.
\* Mutant: any set bit of the flag counts as a fail.
PassFailOnAnyBit(test_flg) ==
    IF FlagByte(test_flg) = None THEN None
    ELSE Some(IF Val(FlagByte(test_flg)) # 0 THEN 1 ELSE 0)

PassFail(test_flg) ==
    IF FlagByte(test_flg) = None THEN None
    ELSE Some(IF (Val(FlagByte(test_flg)) \div FailBit) % 2 = 1 THEN 1 ELSE 0)

\* test_num_to_suite.get(test_num)
SuiteOf(s, test_num) ==
    IF test_num \in DOMAIN s.test_num_to_suite
    THEN Some(s.test_num_to_suite[test_num]) ELSE None

\* The TestItem row _on_prr builds from one buffered result.
NewItemRow(s, die_id, e) ==
    LET test_num == OrInt(e.fd.TEST_NUM, 0)
    IN  IF e.rec_type_name = PTR
        THEN [ die_id        |-> die_id,
               test_num      |-> test_num,
               test_txt      |-> Take(Strip(OrStr(e.fd.TEST_TXT)), TextLen),
               test_type     |-> PTR,
               test_suite_id |-> SuiteOf(s, test_num),
               result        |-> e.fd.RESULT,
               units         |-> Take(Strip(OrStr(e.fd.UNITS)), MetaLen),
               lo_limit      |-> e.fd.LO_LIMIT,
               hi_limit      |-> e.fd.HI_LIMIT,
               pass_fail     |-> PassFail(e.fd.TEST_FLG) ]
        ELSE [ die_id        |-> die_id,
               test_num      |-> test_num,
               test_txt      |-> Take(Strip(OrStr(e.fd.TEST_TXT)), TextLen),
               test_type     |-> FTR,
               test_suite_id |-> SuiteOf(s, test_num),
               result        |-> None,
               units         |-> <<>>,
               lo_limit      |-> None,
               hi_limit      |-> None,
               pass_fail     |-> PassFail(e.fd.TEST_FLG) ]

\* Mutant: the coordinate is stored as the record carries it.
NormCoordKept(c) == c

\* Sentinel normalisation of _on_prr (lines 367-372).
NormCoord(c) == IF c = Some(CoordSentinel) THEN None ELSE c

NormSoftBin(b) == IF b = Some(SoftBinSentinel) THEN None ELSE b

\* The wafer foreign key _on_prr gives a new Die (line 376).
WaferFk(s) == s.wafer

\* The Die row _on_prr inserts.
NewDieRow(s, fd) ==
    [ lot_id   |-> Val(s.lot),
      wafer_id |-> WaferFk(s),
      head_num |-> OrInt(fd.HEAD_NUM, 1),
      site_num |-> OrInt(fd.SITE_NUM, 1),
      x_coord  |-> NormCoord(fd.X_COORD),
      y_coord  |-> NormCoord(fd.Y_COORD),
      part_id  |-> Strip(OrStr(fd.PART_ID)),
      hard_bin |-> fd.HARD_BIN,
      soft_bin |-> NormSoftBin(fd.SOFT_BIN),
      part_flg |-> OrInt(FlagByte(fd.PART_FLG), 0),
      num_test |-> OrInt(fd.NUM_TEST, 0),
      test_t   |-> OrInt(fd.TEST_T, 0) ]

\* Mutant: the Bin row is added whenever the record carries a soft bin.
NewBinRowsOnSoftBin(s, die_id, fd) ==
    IF fd.SOFT_BIN # None
    THEN << [tbl |-> "bin",
             row |-> [ die_id        |-> die_id,
                       hard_bin      |-> fd.HARD_BIN,
                       soft_bin      |-> fd.SOFT_BIN,
                       hard_bin_name |-> <<>>,
                       soft_bin_name |-> <<>> ]] >>
    ELSE <<>>

\* The Bin rows _on_prr adds for a new Die: one when the record carries a
\* hard bin, none otherwise.
NewBinRows(s, die_id, fd) ==
    LET head_num == OrInt(fd.HEAD_NUM, 1)
        site_num == OrInt(fd.SITE_NUM, 1)
        soft_bin == NormSoftBin(fd.SOFT_BIN)
    IN  IF fd.HARD_BIN # None
        THEN << [tbl |-> "bin",
                 row |-> [ die_id        |-> die_id,
                           hard_bin      |-> fd.HARD_BIN,
                           soft_bin      |-> soft_bin,
                           hard_bin_name |-> GetBinName(s.hard_bin_names,
                                                 head_num, site_num, fd.HARD_BIN),
                           soft_bin_name |->
                               IF soft_bin # None
                               THEN GetBinName(s.soft_bin_names,
                                        head_num, site_num, soft_bin)
                               ELSE <<>> ]] >>
        ELSE <<>>

\* The TestItem rows _on_prr adds: one per buffered result, in arrival order.
NewItemRows(s, die_id) ==
    [i \in 1..Len(s.ptr_ftr_buffer) |->
        [tbl |-> "test_item", row |-> NewItemRow(s, die_id, s.ptr_ftr_buffer[i])]]

\* The sink fields _on_prr clears once the buffer is flushed (lines 453-455).
ClearPart(s) ==
    [s EXCEPT !.ptr_ftr_buffer = <<>>, !.current_die = None,
              !.current_die_key = None]

\* Mutant: the Die replaces the Dies of the same lot, head and site.
PrrEffectReplacing(d, s, fd) ==
    LET die_id == NextId(d.die)
        new == WithId(NewDieRow(s, fd), die_id)
    IN  [db      |-> [d EXCEPT !.die =
                        {r \in @ : <<r.lot_id, r.head_num, r.site_num>> #
                                   <<new.lot_id, new.head_num, new.site_num>>}
                        \cup {new}],
         pending |-> NewBinRows(s, die_id, fd) \o NewItemRows(s, die_id),
         sink    |-> ClearPart(s)]

\* _on_prr with a current lot, on a store whose pending rows are flushed:
\* the Die is inserted and flushed, its Bin and TestItems are left pending.
\* Mutant: the buffered results are written before the Die's Bin, last
\* result first.
PrrEffectItemsFirst(d, s, fd) ==
    LET die_id == NextId(d.die)
        items  == NewItemRows(s, die_id)
    IN  [db      |-> [d EXCEPT !.die = @ \cup {WithId(NewDieRow(s, fd), die_id)}],
         pending |-> [i \in 1..Len(items) |-> items[Len(items) + 1 - i]]
                         \o NewBinRows(s, die_id, fd),
         sink    |-> ClearPart(s)]

PrrEffect(d, s, fd) ==
    LET die_id == NextId(d.die)
    IN  [db      |-> [d EXCEPT !.die = @ \cup {WithId(NewDieRow(s, fd), die_id)}],
         pending |-> NewBinRows(s, die_id, fd) \o NewItemRows(s, die_id),
         sink    |-> ClearPart(s)]

\* The TestDefinition row _on_tsr inserts when its lookup finds none.
NewTestDefinitionRow(test_program_id, test_suite_id, test_num, fd) ==
    [ test_program_id |-> test_program_id,
      test_suite_id   |-> test_suite_id,
      test_num        |-> test_num,
      test_type       |-> Strip(OrDefault(OrStr(fd.TEST_TYP), <<" ">>)),
      test_nam        |-> Take(Strip(OrStr(fd.TEST_NAM)), TextLen),
      test_lbl        |-> Take(Strip(OrStr(fd.TEST_LBL)), NameLen),
      exec_cnt        |-> fd.EXEC_CNT,
      fail_cnt        |-> fd.FAIL_CNT,
      alrm_cnt        |-> fd.ALRM_CNT ]

\* Mutant: the suite name is tested for emptiness before it is stripped.
TsrIgnoredUnstripped(s, fd) == OrStr(fd.SEQ_NAME) = <<>> \/ s.test_program = None

\* Whether _on_tsr returns early (line 229).
TsrIgnored(s, fd) == Strip(OrStr(fd.SEQ_NAME)) = <<>> \/ s.test_program = None

\* Mutant: a suite definition also re-links the TestItems that already
\* carry its test number.
TsrEffectRetroactive(d, s, fd) ==
    LET seq_name == Strip(OrStr(fd.SEQ_NAME))
        prog == Val(s.test_program)
        suite == GetOrCreate(d, "test_suite",
                     {r \in d.test_suite :
                         r.test_program_id = prog /\ r.name = seq_name},
                     [test_program_id |-> prog, name |-> seq_name])
    IN  IF fd.TEST_NUM = None THEN [db |-> suite.db, sink |-> s]
        ELSE LET test_num == Val(fd.TEST_NUM)
                 td == GetOrCreate(suite.db, "test_definition",
                           {r \in suite.db.test_definition :
                               r.test_program_id = prog /\ r.test_num = test_num},
                           NewTestDefinitionRow(prog, suite.id, test_num, fd))
             IN  [db   |-> [td.db EXCEPT !.test_item =
                              {[r EXCEPT !.test_suite_id =
                                   IF r.test_num = test_num
                                   THEN Some(suite.id) ELSE @] : r \in @}],
                  sink |-> [s EXCEPT !.test_num_to_suite =
                               Put(@, test_num, suite.id)]]

\* _on_tsr past its early return, on a store whose pending rows are flushed.
TsrEffect(d, s, fd) ==
    LET seq_name == Strip(OrStr(fd.SEQ_NAME))
        prog == Val(s.test_program)
        suite == GetOrCreate(d, "test_suite",
                     {r \in d.test_suite :
                         r.test_program_id = prog /\ r.name = seq_name},
                     [test_program_id |-> prog, name |-> seq_name])
    IN  IF fd.TEST_NUM = None THEN [db |-> suite.db, sink |-> s]
        ELSE LET test_num == Val(fd.TEST_NUM)
                 td == GetOrCreate(suite.db, "test_definition",
                           {r \in suite.db.test_definition :
                               r.test_program_id = prog /\ r.test_num = test_num},
                           NewTestDefinitionRow(prog, suite.id, test_num, fd))
             IN  [db   |-> td.db,
                  sink |-> [s EXCEPT !.test_num_to_suite =
                               Put(@, test_num, suite.id)]]

EquipField(v) == Take(Strip(OrStr(v)), EquipLen)

\* The SiteEquipment row _on_sdr inserts when its lookup finds none.
NewSiteEquipmentRow(lot, head_num, site_grp, fd) ==
    [ lot_id   |-> lot,
      head_num |-> head_num,
      site_grp |-> site_grp,
      hand_typ |-> EquipField(fd.HAND_TYP),
      hand_id  |-> EquipField(fd.HAND_ID),
      card_typ |-> EquipField(fd.CARD_TYP),
      card_id  |-> EquipField(fd.CARD_ID),
      load_typ |-> EquipField(fd.LOAD_TYP),
      load_id  |-> EquipField(fd.LOAD_ID),
      dib_typ  |-> EquipField(fd.DIB_TYP),
      dib_id   |-> EquipField(fd.DIB_ID),
      cabl_typ |-> EquipField(fd.CABL_TYP),
      cabl_id  |-> EquipField(fd.CABL_ID),
      cont_typ |-> EquipField(fd.CONT_TYP),
      cont_id  |-> EquipField(fd.CONT_ID) ]

\* _on_sdr with a current lot, on a store whose pending rows are flushed.
SdrEffect(d, s, fd) ==
    LET head_num == OrInt(fd.HEAD_NUM, 1)
        site_grp == IF fd.SITE_GRP = None THEN AllSites ELSE Val(fd.SITE_GRP)
        eq == GetOrCreate(d, "site_equipment",
                  {r \in d.site_equipment : r.lot_id = Val(s.lot)
                       /\ r.head_num = head_num /\ r.site_grp = site_grp},
                  NewSiteEquipmentRow(Val(s.lot), head_num, site_grp, fd))
    IN  eq.db

\* Mutant: the lot-end leaves the lot without its finish timestamp.
MrrEffectWithoutFinish(d, s, fd) == d

\* after_send for an MRR: the current lot's finish timestamp.
MrrEffect(d, s, fd) ==
    IF s.lot = None THEN d
    ELSE [d EXCEPT !.lot =
             {IF r.id = Val(s.lot)
              THEN [r EXCEPT !.finish_t = StdfTimeToDatetime(fd.FINISH_T)]
              ELSE r : r \in @}]

---------------------------------------------------------------------------
(* load_stdf and the sink's dispatch as actions                            *)

Rec(kind, fd) == [kind |-> kind, fd |-> fd]

IdleSink == NewSink(None, None, None)

\* Two load_stdf calls that have not started, on an empty Company table.
IdlePeers ==
    [ store |-> {},
      run   |-> [r \in 1..2 |-> [phase |-> "idle", name |-> <<>>, found |-> None]] ]

Init ==
    /\ phase = "idle"
    /\ runs = 0
    /\ committed = EmptyDb
    /\ db = EmptyDb
    /\ pending = <<>>
    /\ sink = IdleSink
    /\ hist = <<>>
    /\ peers = IdlePeers
    /\ time_t_bits = 64

\* load_stdf up to parser.parse(): a fresh session on the durable store and
\* a fresh sink.
LoadOk(company_name, product_name, stage_name) ==
    /\ phase # "parsing"
    /\ phase' = "parsing"
    /\ runs' = runs + 1
    /\ db' = committed
    /\ pending' = <<>>
    /\ sink' = NewSink(company_name, product_name, stage_name)
    /\ hist' = <<>>
    /\ UNCHANGED <<committed, peers, time_t_bits>>

\* Mutant: the load writes its Company before it looks at the path.
LoadMissingAfterWrite ==
    /\ phase # "parsing"
    /\ phase' = "notfound"
    /\ runs' = runs + 1
    /\ committed' = InsertRow(committed,
                        [tbl |-> "company", row |-> [name |-> DEFAULT_COMPANY]])
    /\ db' = committed'
    /\ pending' = <<>>
    /\ sink' = IdleSink
    /\ hist' = <<>>
    /\ UNCHANGED <<peers, time_t_bits>>

\* load_stdf on a path that is no file: FileNotFoundError before any session.
LoadMissing ==
    /\ phase # "parsing"
    /\ phase' = "notfound"
    /\ runs' = runs + 1
    /\ db' = committed
    /\ pending' = <<>>
    /\ sink' = IdleSink
    /\ hist' = <<>>
    /\ UNCHANGED <<committed, peers, time_t_bits>>

\* load_stdf on a file that cannot be opened: open() raises at line 494,
\* after the session and the sink are built and before the parser runs.
LoadUnreadable(company_name, product_name, stage_name) ==
    /\ phase # "parsing"
    /\ phase' = "unreadable"
    /\ runs' = runs + 1
    /\ db' = committed
    /\ pending' = <<>>
    /\ sink' = NewSink(company_name, product_name, stage_name)
    /\ hist' = <<>>
    /\ UNCHANGED <<committed, peers, time_t_bits>>

\* Mutant: the rows flushed before the exception stay in the store.
RaiseKeepingWrites(rec) ==
    /\ phase' = "failed"
    /\ committed' = db
    /\ db' = db
    /\ pending' = <<>>
    /\ hist' = Append(hist, rec)
    /\ UNCHANGED <<runs, sink, peers, time_t_bits>>

\* An exception leaves parser.parse(): load_stdf never reaches commit, and
\* the session's writes are dropped with it.
Raise(rec) ==
    /\ phase' = "failed"
    /\ db' = committed
    /\ pending' = <<>>
    /\ hist' = Append(hist, rec)
    /\ UNCHANGED <<runs, committed, sink, peers, time_t_bits>>

\* A handler that runs with autoflush or an explicit flush: the flush's
\* IntegrityError aborts the run, otherwise the handler's effect applies.
Handled(rec, d, p, s) ==
    /\ db' = d
    /\ pending' = p
    /\ sink' = s
    /\ hist' = Append(hist, rec)
    /\ UNCHANGED <<phase, runs, committed, peers, time_t_bits>>

OnMir(fd) ==
    /\ phase = "parsing"
    /\ IF ~FlushOk(db, pending) THEN Raise(Rec("MIR", fd))
       ELSE IF MirOverflows(Flushed(db, pending), sink, fd)
       THEN Raise(Rec("MIR", fd))
       ELSE LET e == MirEffect(Flushed(db, pending), sink, fd)
            IN  Handled(Rec("MIR", fd), e.db, <<>>, e.sink)

OnWir(fd) ==
    /\ phase = "parsing"
    /\ IF sink.lot = None THEN Handled(Rec("WIR", fd), db, pending, sink)
       ELSE IF ~FlushOk(db, pending) THEN Raise(Rec("WIR", fd))
       ELSE IF WirOverflows(Flushed(db, pending), sink, fd)
       THEN Raise(Rec("WIR", fd))
       ELSE LET e == WirEffect(Flushed(db, pending), sink, fd)
            IN  Handled(Rec("WIR", fd), e.db, <<>>, e.sink)

OnWrr(fd) ==
    /\ phase = "parsing"
    /\ IF sink.wafer # None /\ TimeOverflows(fd.FINISH_T)
       THEN Raise(Rec("WRR", fd))
       ELSE LET e == WrrEffect(db, sink, fd)
            IN  Handled(Rec("WRR", fd), e.db, pending, e.sink)

OnPir(fd) ==
    /\ phase = "parsing"
    /\ Handled(Rec("PIR", fd), db, pending, PirEffect(sink, fd))

OnPtr(fd) ==
    /\ phase = "parsing"
    /\ Handled(Rec("PTR", fd), db, pending, BufferResult(sink, PTR, fd))

OnFtr(fd) ==
    /\ phase = "parsing"
    /\ Handled(Rec("FTR", fd), db, pending, BufferResult(sink, FTR, fd))

OnPrr(fd) ==
    /\ phase = "parsing"
    /\ IF sink.lot = None
       THEN Handled(Rec("PRR", fd), db, pending,
                    [sink EXCEPT !.ptr_ftr_buffer = <<>>])
       ELSE IF ~FlushOk(db, pending) THEN Raise(Rec("PRR", fd))
       ELSE LET e == PrrEffect(Flushed(db, pending), sink, fd)
            IN  Handled(Rec("PRR", fd), e.db, e.pending, e.sink)

\* Mutant: a hard-bin summary also renames the Bin rows the session still
\* holds for its bin code.
OnHbrRenamingBins(fd) ==
    /\ phase = "parsing"
    /\ Handled(Rec("HBR", fd), db,
               [i \in 1..Len(pending) |->
                   IF pending[i].tbl = "bin"
                         /\ pending[i].row.hard_bin = fd.HBIN_NUM
                   THEN [pending[i] EXCEPT !.row.hard_bin_name =
                            Take(Strip(OrStr(fd.HBIN_NAM)), NameLen)]
                   ELSE pending[i]],
               [sink EXCEPT !.hard_bin_names =
                   RegisterBinName(@, fd, fd.HBIN_NUM, fd.HBIN_NAM)])

OnHbr(fd) ==
    /\ phase = "parsing"
    /\ Handled(Rec("HBR", fd), db, pending,
               [sink EXCEPT !.hard_bin_names =
                   RegisterBinName(@, fd, fd.HBIN_NUM, fd.HBIN_NAM)])

OnSbr(fd) ==
    /\ phase = "parsing"
    /\ Handled(Rec("SBR", fd), db, pending,
               [sink EXCEPT !.soft_bin_names =
                   RegisterBinName(@, fd, fd.SBIN_NUM, fd.SBIN_NAM)])

OnTsr(fd) ==
    /\ phase = "parsing"
    /\ IF TsrIgnored(sink, fd) THEN Handled(Rec("TSR", fd), db, pending, sink)
       ELSE IF ~FlushOk(db, pending) THEN Raise(Rec("TSR", fd))
       ELSE LET e == TsrEffect(Flushed(db, pending), sink, fd)
            IN  Handled(Rec("TSR", fd), e.db, <<>>, e.sink)

OnSdr(fd) ==
    /\ phase = "parsing"
    /\ IF sink.lot = None THEN Handled(Rec("SDR", fd), db, pending, sink)
       ELSE IF ~FlushOk(db, pending) THEN Raise(Rec("SDR", fd))
       ELSE Handled(Rec("SDR", fd),
                    SdrEffect(Flushed(db, pending), sink, fd), <<>>, sink)

OnMrr(fd) ==
    /\ phase = "parsing"
    /\ IF sink.lot # None /\ TimeOverflows(fd.FINISH_T)
       THEN Raise(Rec("MRR", fd))
       ELSE Handled(Rec("MRR", fd), MrrEffect(db, sink, fd), pending, sink)

\* Mutant: a record of an unrecognized kind ends the open part.
OnOtherEndingPart(kind) ==
    /\ phase = "parsing"
    /\ Handled(Rec(kind, [x \in {} |-> None]), db, pending, ClearPart(sink))

\* A record of a kind neither before_send nor after_send dispatches on.
OnOther(kind) ==
    /\ phase = "parsing"
    /\ Handled(Rec(kind, [x \in {} |-> None]), db, pending, sink)

\* The decoder raises on a malformed stream.
DecodeError ==
    /\ phase = "parsing"
    /\ phase' = "failed"
    /\ db' = committed
    /\ pending' = <<>>
    /\ UNCHANGED <<runs, committed, sink, hist, peers, time_t_bits>>

\* Mutant: the commit also stores the results still in the buffer.
EndOfStreamStoringBuffer ==
    /\ phase = "parsing"
    /\ IF ~FlushOk(db, pending)
       THEN /\ phase' = "failed"
            /\ db' = committed
            /\ UNCHANGED committed
       ELSE /\ phase' = "committed"
            /\ db' = Flushed(db, pending \o NewItemRows(sink, 0))
            /\ committed' = Flushed(db, pending \o NewItemRows(sink, 0))
    /\ pending' = <<>>
    /\ UNCHANGED <<runs, sink, hist, peers, time_t_bits>>

\* End of stream: parse() returns and load_stdf commits (line 501); the
\* commit flushes first, and a failing flush leaves nothing committed.
EndOfStream ==
    /\ phase = "parsing"
    /\ IF ~FlushOk(db, pending)
       THEN /\ phase' = "failed"
            /\ db' = committed
            /\ UNCHANGED committed
       ELSE /\ phase' = "committed"
            /\ db' = Flushed(db, pending)
            /\ committed' = Flushed(db, pending)
    /\ pending' = <<>>
    /\ UNCHANGED <<runs, sink, hist, peers, time_t_bits>>

---------------------------------------------------------------------------
(* Record field maps as the decoder hands them over: every field the       *)
(* handler reads is present, None when the record omits it.                *)

Str(c) == Some(<<c>>)

FlagInt(n) == Some([isList |-> FALSE, v |-> <<n>>])

FlagList(v) == Some([isList |-> TRUE, v |-> v])

MirFd(lot_id, part_typ, job_nam, setup_t, tstr_typ) ==
    [ LOT_ID |-> lot_id, PART_TYP |-> part_typ, JOB_NAM |-> job_nam,
      JOB_REV |-> None, MODE_COD |-> None, SETUP_T |-> setup_t,
      START_T |-> setup_t, TSTR_TYP |-> tstr_typ, NODE_NAM |-> None,
      FACIL_ID |-> None, FLOOR_ID |-> None, STAT_NUM |-> None,
      EXEC_TYP |-> None, EXEC_VER |-> None ]

MrrFd(finish_t) == [FINISH_T |-> finish_t]

WirFd(wafer_id, head_num, start_t) ==
    [ WAFER_ID |-> wafer_id, HEAD_NUM |-> head_num, SITE_GRP |-> None,
      START_T |-> start_t ]

WrrFd(finish_t, part_cnt, good_cnt) ==
    [FINISH_T |-> finish_t, PART_CNT |-> part_cnt, GOOD_CNT |-> good_cnt]

PirFd(head_num, site_num) == [HEAD_NUM |-> head_num, SITE_NUM |-> site_num]

PrrFd(head_num, site_num, hard_bin, soft_bin, x_coord, y_coord) ==
    [ HEAD_NUM |-> head_num, SITE_NUM |-> site_num, PART_FLG |-> FlagInt(0),
      NUM_TEST |-> None, HARD_BIN |-> hard_bin, SOFT_BIN |-> soft_bin,
      X_COORD |-> x_coord, Y_COORD |-> y_coord, TEST_T |-> None,
      PART_ID |-> None ]

PtrFd(test_num, test_flg, result) ==
    [ TEST_NUM |-> test_num, TEST_FLG |-> test_flg, RESULT |-> result,
      TEST_TXT |-> None, UNITS |-> None, LO_LIMIT |-> None,
      HI_LIMIT |-> None ]

FtrFd(test_num, test_flg) ==
    [TEST_NUM |-> test_num, TEST_FLG |-> test_flg, TEST_TXT |-> None]

HbrFd(head_num, site_num, hbin_num, hbin_nam) ==
    [ HEAD_NUM |-> head_num, SITE_NUM |-> site_num, HBIN_NUM |-> hbin_num,
      HBIN_NAM |-> hbin_nam ]

SbrFd(head_num, site_num, sbin_num, sbin_nam) ==
    [ HEAD_NUM |-> head_num, SITE_NUM |-> site_num, SBIN_NUM |-> sbin_num,
      SBIN_NAM |-> sbin_nam ]

TsrFd(seq_name, test_num, test_typ) ==
    [ SEQ_NAME |-> seq_name, TEST_NUM |-> test_num, TEST_TYP |-> test_typ,
      TEST_NAM |-> None, TEST_LBL |-> None, EXEC_CNT |-> None,
      FAIL_CNT |-> None, ALRM_CNT |-> None ]

SdrFd(head_num, site_grp, hand_typ) ==
    [ HEAD_NUM |-> head_num, SITE_GRP |-> site_grp, HAND_TYP |-> hand_typ,
      HAND_ID |-> None, CARD_TYP |-> None, CARD_ID |-> None,
      LOAD_TYP |-> None, LOAD_ID |-> None, DIB_TYP |-> None,
      DIB_ID |-> None, CABL_TYP |-> None, CABL_ID |-> None,
      CONT_TYP |-> None, CONT_ID |-> None ]

---------------------------------------------------------------------------
(* Spec: every record kind, one or two records of each, short streams      *)

MaxRecords == 3

MirA == MirFd(Str("A"), Str("P"), Str("J"), Some(5), Str("T"))

MirB == MirFd(Str("B"), Str("P"), Str("J"), Some(5), Str("T"))

AnyMir == {MirA, MirB}

AnyWir == {WirFd(Str("W"), Some(1), Some(6))}

AnyWrr == {WrrFd(Some(9), Some(2), Some(1))}

AnyPir == {PirFd(Some(1), Some(1))}

AnyPrr == { PrrFd(Some(1), Some(1), Some(1), Some(1), Some(3), Some(4)),
            PrrFd(Some(1), Some(2), None, Some(SoftBinSentinel),
                  Some(CoordSentinel), None) }

AnyPtr == {PtrFd(Some(1), FlagInt(FailBit), Some(7))}

AnyFtr == {FtrFd(Some(1), FlagInt(0))}

AnyHbr == {HbrFd(Some(1), Some(1), Some(1), Str("P"))}

AnySbr == {SbrFd(Some(AllSites), Some(AllSites), Some(1), Str("S"))}

AnyTsr == {TsrFd(Str("S"), Some(1), Str("P"))}

AnySdr == {SdrFd(Some(1), None, Str("H"))}

AnyMrr == {MrrFd(Some(9))}

\* The sink is handed one more record of a stream of at most n records.
Ready(n) == Len(hist) < n

Next ==
    \/ runs < 1 /\ LoadOk(None, None, None)
    \/ runs < 1 /\ LoadMissing
    \/ \E fd \in AnyMir : Ready(MaxRecords) /\ OnMir(fd)
    \/ \E fd \in AnyWir : Ready(MaxRecords) /\ OnWir(fd)
    \/ \E fd \in AnyWrr : Ready(MaxRecords) /\ OnWrr(fd)
    \/ \E fd \in AnyPir : Ready(MaxRecords) /\ OnPir(fd)
    \/ \E fd \in AnyPrr : Ready(MaxRecords) /\ OnPrr(fd)
    \/ \E fd \in AnyPtr : Ready(MaxRecords) /\ OnPtr(fd)
    \/ \E fd \in AnyFtr : Ready(MaxRecords) /\ OnFtr(fd)
    \/ \E fd \in AnyHbr : Ready(MaxRecords) /\ OnHbr(fd)
    \/ \E fd \in AnySbr : Ready(MaxRecords) /\ OnSbr(fd)
    \/ \E fd \in AnyTsr : Ready(MaxRecords) /\ OnTsr(fd)
    \/ \E fd \in AnySdr : Ready(MaxRecords) /\ OnSdr(fd)
    \/ \E fd \in AnyMrr : Ready(MaxRecords) /\ OnMrr(fd)
    \/ Ready(MaxRecords) /\ OnOther("BPS")
    \/ DecodeError
    \/ EndOfStream

Spec == Init /\ [][Next]_vars

---------------------------------------------------------------------------
(* Reading the history                                                     *)

Last(h) == h[Len(h)]

\* This step handed the sink a record of the given kind and the run went on.
StepOf(kind) ==
    /\ phase = "parsing" /\ phase' = "parsing"
    /\ Len(hist') = Len(hist) + 1
    /\ Last(hist').kind = kind

\* The field map of the record this step handed over.
StepFd == Last(hist').fd

---------------------------------------------------------------------------
(* SpecLot: lot-start records that repeat and vary a lot key, over two     *)
(* successive loads into the same store                                    *)

MaxLotRecords == 2

MaxLotRuns == 2

LotMirs ==
    { MirFd(Str("A"), Str("P"), Str("J"), Some(5), Str("T")),
      MirFd(Some(<<" ", "A">>), Str("P"), Str("J"), Some(7), Str("U")),
      MirFd(Str("A"), None, Str("J"), None, Str("T")),
      MirFd(None, Str("P"), None, Some(0), None) }

NextLot ==
    \/ runs < MaxLotRuns /\ LoadOk(None, None, None)
    \/ runs < MaxLotRuns /\ LoadOk(None, Str("P"), None)
    \/ \E fd \in LotMirs : Ready(MaxLotRecords) /\ OnMir(fd)
    \/ \E fd \in AnyMrr : Ready(MaxLotRecords) /\ OnMrr(fd)
    \/ EndOfStream

SpecLot == Init /\ [][NextLot]_vars

\* The Lot rows whose natural key is the one the lot-start record of this
\* step resolves to: the test program it resolved and its lot identifier.
LotsWithStepKey ==
    {l \in db.lot : /\ l.test_program_id = Val(sink'.test_program)
                    /\ l.lot_id = LotIdOf(StepFd)}

\* C1: a lot-start record whose (test program, lot identifier) key matches
\* an existing Lot creates no Lot row and changes no field of any Lot row,
\* whatever its other fields are; the existing row becomes the current lot.
C1_LotStartIsIdempotent ==
    [][ (StepOf("MIR") /\ LotsWithStepKey # {})
            => /\ db'.lot = db.lot
               /\ sink'.lot \in {Some(l.id) : l \in LotsWithStepKey} ]_vars

\* Two lot-start records with the same key and different stamps and tester
\* type were processed, and one Lot row holds the first record's fields.
C1_Witness ==
    /\ phase = "parsing"
    /\ Len(hist) = 2
    /\ hist[1].kind = "MIR" /\ hist[2].kind = "MIR"
    /\ LotIdOf(hist[1].fd) = LotIdOf(hist[2].fd)
    /\ hist[1].fd.SETUP_T # hist[2].fd.SETUP_T
    /\ hist[1].fd.TSTR_TYP # hist[2].fd.TSTR_TYP
    /\ Cardinality(db.lot) = 1
    /\ \A l \in db.lot : l.setup_t = StdfTimeToDatetime(hist[1].fd.SETUP_T)

---------------------------------------------------------------------------
(* SpecBin: two lots, bin-summary records and part-end records             *)

MaxBinRecords == 4

BinHbrs ==
    { HbrFd(Some(1), Some(1), Some(1), Str("P")),
      HbrFd(Some(AllSites), Some(AllSites), Some(1), Str("G")),
      HbrFd(Some(1), None, Some(1), Str("H")),
      HbrFd(Some(1), Some(1), Some(1), Str(" ")),
      HbrFd(None, Some(1), Some(1), Str("X")) }

BinSbrs ==
    { SbrFd(Some(1), Some(1), Some(2), Str("S")),
      SbrFd(Some(AllSites), Some(AllSites), Some(2), Some(<<"T", " ">>)) }

BinPrrs ==
    { PrrFd(Some(1), Some(1), Some(1), Some(2), Some(3), Some(4)),
      PrrFd(Some(1), Some(2), Some(1), Some(2), Some(CoordSentinel), Some(4)),
      PrrFd(None, Some(0), Some(1), Some(SoftBinSentinel), Some(3),
            Some(CoordSentinel)),
      PrrFd(Some(1), Some(1), None, Some(2), None, None) }

NextBin ==
    \/ runs < 1 /\ LoadOk(None, None, None)
    \/ \E fd \in AnyMir : Ready(MaxBinRecords) /\ OnMir(fd)
    \/ \E fd \in BinHbrs : Ready(MaxBinRecords) /\ OnHbr(fd)
    \/ \E fd \in BinSbrs : Ready(MaxBinRecords) /\ OnSbr(fd)
    \/ \E fd \in BinPrrs : Ready(MaxBinRecords) /\ OnPrr(fd)
    \/ EndOfStream

SpecBin == Init /\ [][NextBin]_vars

\* The Die rows this step inserted.
NewDies == db'.die \ db.die

\* The rows of a table the session holds: flushed, or added and pending.
Held(d, p, tbl) ==
    {r \in d[tbl] : TRUE} \cup
    {WithId(p[i].row, 0) : i \in {j \in 1..Len(p) : p[j].tbl = tbl}}

\* The Bin rows this step added for Die die_id.
NewBinsOf(die_id) ==
    {p \in {pending'[i].row : i \in {j \in 1..Len(pending') :
                                       pending'[j].tbl = "bin"}} :
        p.die_id = die_id}

\* The position in h of its last lot-start record, 0 when there is none.
LastMir(h) ==
    IF \E i \in 1..Len(h) : h[i].kind = "MIR"
    THEN MaxOf({i \in 1..Len(h) : h[i].kind = "MIR"}) ELSE 0

\* Record r is a bin-summary record of the given kind that registers a name
\* for bin code c under key (head, site).
Registers(r, kind, head, site, c) ==
    /\ r.kind = kind
    /\ r.fd.HEAD_NUM = Some(head)
    /\ (IF r.fd.SITE_NUM = None THEN AllSites ELSE Val(r.fd.SITE_NUM)) = site
    /\ (IF kind = "HBR" THEN r.fd.HBIN_NUM ELSE r.fd.SBIN_NUM) = c

\* The name a bin-summary record registers.
NameIn(r) ==
    Take(Strip(OrStr(IF r.kind = "HBR" THEN r.fd.HBIN_NAM ELSE r.fd.SBIN_NAM)),
         NameLen)

\* The positions of h, after its last lot-start, that register a name for
\* code c under key (head, site).
Registrations(h, kind, head, site, c) ==
    {i \in (LastMir(h) + 1)..Len(h) : Registers(h[i], kind, head, site, c)}

\* The name the stream so far has registered for code c at (head, site):
\* the latest registration under the exact key, else the latest under the
\* summary key (255, 255), else the empty string.
RegisteredName(h, kind, head, site, c) ==
    IF Registrations(h, kind, head, site, c) # {}
    THEN NameIn(h[MaxOf(Registrations(h, kind, head, site, c))])
    ELSE IF Registrations(h, kind, AllSites, AllSites, c) # {}
    THEN NameIn(h[MaxOf(Registrations(h, kind, AllSites, AllSites, c))])
    ELSE <<>>

\* A part-end record is processed with a current lot.
PartEndStep == StepOf("PRR") /\ sink.lot # None

\* C2: a lot-start record with another lot identifier resolves to another
\* Lot, and no Bin row of a Die created after it carries a hard or soft bin
\* name unless a bin-summary record after that lot-start registered that
\* name for the Die's bin code under the Die's (head, site) key or under
\* the summary key.
C2_BinNamesAreScopedToTheLot ==
    [][ /\ (StepOf("MIR") /\ sink.lot # None
              /\ RowOf(db.lot, Val(sink.lot)).lot_id # LotIdOf(StepFd))
           => (sink'.lot # sink.lot /\ sink'.lot # None
                 /\ {Val(sink.lot), Val(sink'.lot)} \subseteq
                       {l.id : l \in db'.lot})
        /\ PartEndStep =>
             \A d \in NewDies : \A b \in NewBinsOf(d.id) :
               /\ b.hard_bin_name # <<>> =>
                    \E i \in Registrations(hist, "HBR", d.head_num, d.site_num,
                                           b.hard_bin)
                          \cup Registrations(hist, "HBR", AllSites, AllSites,
                                             b.hard_bin) :
                       NameIn(hist[i]) = b.hard_bin_name
               /\ b.soft_bin_name # <<>> =>
                    \E i \in Registrations(hist, "SBR", d.head_num, d.site_num,
                                           b.soft_bin)
                          \cup Registrations(hist, "SBR", AllSites, AllSites,
                                             b.soft_bin) :
                       NameIn(hist[i]) = b.soft_bin_name ]_vars

\* A name was registered for the bin code under the first lot, a second
\* lot-start with another identifier followed, and a Die of the second lot
\* with that bin code got a Bin row with an empty hard bin name.
C2_Witness ==
    /\ phase = "parsing"
    /\ Len(hist) = 4
    /\ hist[1].kind = "MIR" /\ hist[2].kind = "HBR"
    /\ hist[3].kind = "MIR" /\ hist[4].kind = "PRR"
    /\ LotIdOf(hist[1].fd) # LotIdOf(hist[3].fd)
    /\ Registers(hist[2], "HBR", 1, 1, hist[4].fd.HARD_BIN)
    /\ NameIn(hist[2]) # <<>>
    /\ hist[4].fd.HEAD_NUM = Some(1) /\ hist[4].fd.SITE_NUM = Some(1)
    /\ Cardinality(db.lot) = 2
    /\ \E i \in 1..Len(pending) :
          pending[i].tbl = "bin" /\ pending[i].row.hard_bin_name = <<>>

(* SpecBinName: one lot, per-site and summary names for one hard and one   *)
(* soft bin code, Dies at two sites                                        *)

MaxBinNameRecords == 5

BinNameHbrs ==
    { HbrFd(Some(1), Some(1), Some(1), Str("P")),
      HbrFd(Some(AllSites), Some(AllSites), Some(1), Str("G")),
      HbrFd(Some(1), Some(1), Some(1), Str(" ")) }

BinNamePrrs ==
    { PrrFd(Some(1), Some(1), Some(1), Some(2), Some(3), Some(4)),
      PrrFd(Some(1), Some(2), Some(1), Some(2), Some(3), Some(4)) }

NextBinName ==
    \/ runs < 1 /\ LoadOk(None, None, None)
    \/ Ready(MaxBinNameRecords) /\ OnMir(MirA)
    \/ \E fd \in BinNameHbrs : Ready(MaxBinNameRecords) /\ OnHbr(fd)
    \/ \E fd \in BinSbrs : Ready(MaxBinNameRecords) /\ OnSbr(fd)
    \/ \E fd \in BinNamePrrs : Ready(MaxBinNameRecords) /\ OnPrr(fd)
    \/ EndOfStream

SpecBinName == Init /\ [][NextBinName]_vars

\* C5: the Bin row of a new Die at (head, site) with hard bin code c
\* carries the name registered for c under (head, site) when there is one,
\* else the name registered under (255, 255), else the empty string; the
\* same for its soft bin code and the soft-bin registrations (the empty
\* string when the Die has no soft bin).
C5_BinNameFallback ==
    [][ PartEndStep =>
          \A d \in NewDies : d.hard_bin # None =>
            /\ NewBinsOf(d.id) # {}
            /\ \A b \in NewBinsOf(d.id) :
                 /\ b.hard_bin_name =
                      RegisteredName(hist, "HBR", d.head_num, d.site_num,
                                     d.hard_bin)
                 /\ b.soft_bin_name =
                      IF d.soft_bin = None THEN <<>>
                      ELSE RegisteredName(hist, "SBR", d.head_num, d.site_num,
                                          d.soft_bin) ]_vars

\* The spec's instance: "P" registered at (1, 1) and "G" at (255, 255) for
\* the same code; a Die at (1, 1) got "P" and a Die at (1, 2) got "G".
C5_Witness ==
    /\ phase = "committed"
    /\ \E i, j \in 1..Len(hist) :
          /\ Registers(hist[i], "HBR", 1, 1, Some(1))
          /\ NameIn(hist[i]) = <<"P">>
          /\ Registers(hist[j], "HBR", AllSites, AllSites, Some(1))
          /\ NameIn(hist[j]) = <<"G">>
    /\ \E d1, d2 \in committed.die : \E b1, b2 \in committed.bin :
          /\ d1.head_num = 1 /\ d1.site_num = 1 /\ b1.die_id = d1.id
          /\ d2.head_num = 1 /\ d2.site_num = 2 /\ b2.die_id = d2.id
          /\ b1.hard_bin = Some(1) /\ b1.hard_bin_name = <<"P">>
          /\ b2.hard_bin = Some(1) /\ b2.hard_bin_name = <<"G">>

\* C6: no Die holds the coordinate sentinel -32768 in x or y, no Die or Bin
\* holds the soft-bin sentinel 65535, and a part-end record's x, y and soft
\* bin are stored as None when they carry the sentinel and unchanged
\* otherwise.
C6_SentinelsBecomeNull ==
    [][ /\ \A d \in db'.die \cup committed'.die :
              /\ d.x_coord # Some(CoordSentinel)
              /\ d.y_coord # Some(CoordSentinel)
              /\ d.soft_bin # Some(SoftBinSentinel)
        /\ \A b \in Held(db', pending', "bin") \cup committed'.bin :
              b.soft_bin # Some(SoftBinSentinel)
        /\ PartEndStep =>
             /\ NewDies # {}
             /\ \A d \in NewDies :
                  /\ d.x_coord = IF StepFd.X_COORD = Some(CoordSentinel)
                                 THEN None ELSE StepFd.X_COORD
                  /\ d.y_coord = IF StepFd.Y_COORD = Some(CoordSentinel)
                                 THEN None ELSE StepFd.Y_COORD
                  /\ d.soft_bin = IF StepFd.SOFT_BIN = Some(SoftBinSentinel)
                                  THEN None ELSE StepFd.SOFT_BIN
                  /\ \A b \in NewBinsOf(d.id) : b.soft_bin = d.soft_bin ]_vars

\* Part-end records with a sentinel x, a sentinel y and a sentinel soft bin
\* were committed: Dies with null x, null y and null soft bin exist beside
\* a Die that kept its real coordinates.
C6_Witness ==
    /\ phase = "committed"
    /\ \E i, j \in 1..Len(hist) :
          /\ hist[i].kind = "PRR" /\ hist[j].kind = "PRR"
          /\ hist[i].fd.X_COORD = Some(CoordSentinel)
          /\ hist[j].fd.Y_COORD = Some(CoordSentinel)
          /\ hist[j].fd.SOFT_BIN = Some(SoftBinSentinel)
    /\ \E d \in committed.die : d.x_coord = None /\ d.y_coord = Some(4)
    /\ \E d \in committed.die : \E b \in committed.bin :
          /\ d.x_coord = Some(3) /\ d.y_coord = None /\ d.soft_bin = None
          /\ b.die_id = d.id /\ b.soft_bin = None

\* The number of Bin rows the session holds for Die die_id.
BinCount(d, p, die_id) ==
    Cardinality({b \in d.bin : b.die_id = die_id})
      + Cardinality({i \in 1..Len(p) :
                        p[i].tbl = "bin" /\ p[i].row.die_id = die_id})

\* C9: every Die with a hard bin code has exactly one Bin row and every
\* Die without one has none, in the session (flushed or pending rows) and
\* in the committed store; every Bin row belongs to a Die.
C9_BinIffHardBin ==
    /\ \A d \in db.die :
          BinCount(db, pending, d.id) = IF d.hard_bin # None THEN 1 ELSE 0
    /\ \A d \in committed.die :
          BinCount(committed, <<>>, d.id) = IF d.hard_bin # None THEN 1 ELSE 0
    /\ \A b \in Held(db, pending, "bin") : \E d \in db.die : d.id = b.die_id
    /\ \A b \in committed.bin : \E d \in committed.die : d.id = b.die_id

\* A Die with a hard bin and a Die without one were committed, the first
\* with its Bin row and the second with none.
C9_Witness ==
    /\ phase = "committed"
    /\ \E d \in committed.die :
          d.hard_bin # None /\ \E b \in committed.bin : b.die_id = d.id
    /\ \E d \in committed.die :
          d.hard_bin = None /\ ~ \E b \in committed.bin : b.die_id = d.id

---------------------------------------------------------------------------
(* SpecPart: one lot, part-start, parametric results and part-end          *)

MaxPartRecords == 6

PartPtrs ==
    { PtrFd(Some(1), FlagInt(FailBit + 1), Some(7)),
      PtrFd(Some(2), FlagInt(64), Some(8)),
      PtrFd(None, None, None) }

PartPrr == PrrFd(Some(1), Some(1), Some(1), None, Some(3), Some(4))

NextPart ==
    \/ runs < 1 /\ LoadOk(None, None, None)
    \/ Ready(MaxPartRecords) /\ OnMir(MirA)
    \/ \E fd \in AnyPir : Ready(MaxPartRecords) /\ OnPir(fd)
    \/ \E fd \in PartPtrs : Ready(MaxPartRecords) /\ OnPtr(fd)
    \/ Ready(MaxPartRecords) /\ OnPrr(PartPrr)
    \/ EndOfStream

SpecPart == Init /\ [][NextPart]_vars

\* The store a commit at this point leaves: the session's rows when its
\* flush passes the constraints, the store as it was when the flush fails.
CommitView(d, p, c) == IF FlushOk(d, p) THEN Flushed(d, p) ELSE c

\* The position in h of its last part-start record, 0 when there is none.
LastPir(h) ==
    IF \E i \in 1..Len(h) : h[i].kind = "PIR"
    THEN MaxOf({i \in 1..Len(h) : h[i].kind = "PIR"}) ELSE 0

\* The records of h after its last part-start are all result records.
OnlyResultsSincePir(h, kinds) ==
    /\ LastPir(h) > 0
    /\ \A j \in (LastPir(h) + 1)..Len(h) : h[j].kind \in kinds

\* The pass/fail value a result record's flag byte stands for: bit 0x80 of
\* a byte is set exactly when the byte is 128 or more.
FlagBitOf(r) ==
    IF r.fd.TEST_FLG = None THEN None
    ELSE IF Val(r.fd.TEST_FLG).isList /\ Val(r.fd.TEST_FLG).v = <<>>
         THEN Some(0)
         ELSE Some(IF Val(r.fd.TEST_FLG).v[1] >= FailBit THEN 1 ELSE 0)

\* The n-th smallest id among rows.
RECURSIVE NthId(_, _)
NthId(ids, n) ==
    LET m == CHOOSE i \in ids : \A j \in ids : i <= j
    IN  IF n = 1 THEN m ELSE NthId(ids \ {m}, n - 1)

\* Store v holds, beyond the Dies of d, exactly one Die, and exactly one
\* TestItem of that Die per record of h after position from, in the order
\* of the records, each with the record's pass/fail value.
OneDieWithItemsOf(v, d, h, from) ==
    /\ Cardinality(v.die \ d.die) = 1
    /\ \A die \in v.die \ d.die :
         LET items == {t \in v.test_item : t.die_id = die.id}
         IN  /\ Cardinality(items) = Len(h) - from
             /\ \A n \in 1..(Len(h) - from) :
                  RowOf(items, NthId({t.id : t \in items}, n)).pass_fail
                     = FlagBitOf(h[from + n])

\* C3: with a current lot, part-start, k parametric results, part-end
\* leaves in the store exactly one new Die and exactly k TestItems of that
\* Die, the i-th with the pass/fail value of the i-th result's flag bit.
C3_PartMakesOneDieAndKItems ==
    [][ (PartEndStep /\ OnlyResultsSincePir(hist, {"PTR"}))
           => OneDieWithItemsOf(CommitView(db', pending', committed'),
                                Flushed(db, pending), hist, LastPir(hist))
      ]_vars

\* The results between the last part-start and this part-end carry
\* pairwise distinct test numbers (a missing number counts as 0).
DistinctTestNumbersSincePir(h) ==
    \A i, j \in (LastPir(h) + 1)..Len(h) :
       i # j => OrInt(h[i].fd.TEST_NUM, 0) # OrInt(h[j].fd.TEST_NUM, 0)

\* The case of C3 the code meets: results with pairwise distinct test
\* numbers.
C3_HoldsForDistinctTestNumbers ==
    [][ (PartEndStep /\ OnlyResultsSincePir(hist, {"PTR"})
           /\ DistinctTestNumbersSincePir(hist))
           => OneDieWithItemsOf(CommitView(db', pending', committed'),
                                Flushed(db, pending), hist, LastPir(hist))
      ]_vars

IsItem(e) == e.tbl = "test_item"

\* C4: a part-start record creates no Die and no TestItem, and the part-end
\* that follows a part-start and its results creates one Die whose
\* TestItems are exactly the results received after that last part-start,
\* in order: results buffered before it (for a part that never got its
\* part-end) become TestItems of no Die.
C4_OrphanedResultsAreDiscarded ==
    [][ /\ StepOf("PIR") => (db' = db /\ pending' = pending)
        /\ (PartEndStep /\ OnlyResultsSincePir(hist, {"PTR", "FTR"})) =>
             LET items == SelectSeq(pending', IsItem)
                 from  == LastPir(hist)
             IN  /\ Cardinality(NewDies) = 1
                 /\ db'.test_item = Flushed(db, pending).test_item
                 /\ Len(items) = Len(hist) - from
                 /\ \A n \in 1..Len(items) :
                      /\ items[n].row.die_id \in {d.id : d \in NewDies}
                      /\ items[n].row.test_num =
                            OrInt(hist[from + n].fd.TEST_NUM, 0)
                      /\ items[n].row.result = hist[from + n].fd.RESULT
                      /\ items[n].row.pass_fail = FlagBitOf(hist[from + n])
      ]_vars

\* part-start, a result, part-start, another result, part-end: the one Die
\* has the second result as its only TestItem.
C4_Witness ==
    /\ phase = "parsing"
    /\ Len(hist) = 6
    /\ hist[2].kind = "PIR" /\ hist[3].kind = "PTR"
    /\ hist[4].kind = "PIR" /\ hist[5].kind = "PTR"
    /\ hist[6].kind = "PRR"
    /\ hist[3].fd.RESULT # hist[5].fd.RESULT
    /\ Cardinality(db.die) = 1
    /\ Len(SelectSeq(pending, IsItem)) = 1
    /\ SelectSeq(pending, IsItem)[1].row.result = hist[5].fd.RESULT

---------------------------------------------------------------------------
(* SpecRuns: two successive loads into the same store, each of which may   *)
(* end in a commit, in a decode error or in a constraint violation         *)

MaxRunRecords == 5

MaxRuns == 2

RunPtr == PtrFd(None, FlagInt(0), Some(7))

RunPrr == PrrFd(Some(1), Some(1), Some(1), Some(1), Some(3), Some(4))

NextRuns ==
    \/ runs < MaxRuns /\ LoadOk(None, None, None)
    \/ Ready(MaxRunRecords) /\ OnMir(MirA)
    \/ Ready(MaxRunRecords) /\ OnPtr(RunPtr)
    \/ Ready(MaxRunRecords) /\ OnPrr(RunPrr)
    \/ DecodeError
    \/ EndOfStream

SpecRuns == Init /\ [][NextRuns]_vars

\* C7: a run that fails at some record, by a decode error or a constraint
\* violation, leaves the committed store as it was before the run and the
\* rows written for the earlier records are gone with the session; the
\* committed store changes only in the commit step at end of stream.
C7_FailedRunLeavesStoreUnchanged ==
    [][ /\ (phase = "parsing" /\ phase' = "failed") =>
              (committed' = committed /\ db' = committed /\ pending' = <<>>)
        /\ committed' # committed =>
              /\ phase = "parsing" /\ phase' = "committed"
              /\ hist' = hist
              /\ committed' = Flushed(db, pending)
      ]_vars

\* The second load wrote a Lot's Die and then failed on a constraint
\* violation at its fifth record: the store still holds what the first
\* load committed, and no Die.
C7_Witness ==
    /\ phase = "failed"
    /\ runs = 2
    /\ committed.lot # {}
    /\ committed.die = {}
    /\ db = committed
    /\ Len(hist) = 5
    /\ hist[1].kind = "MIR"
    /\ hist[4].kind = "PRR"

---------------------------------------------------------------------------
(* SpecWafer: lot-start, wafer-start, wafer-end and part-end records       *)

MaxWaferRecords == 5

WaferWir == WirFd(Str("W"), Some(1), Some(6))

WaferWrr == WrrFd(Some(9), Some(2), Some(1))

WaferPrr == PrrFd(Some(1), Some(1), Some(1), Some(1), Some(3), Some(4))

NextWafer ==
    \/ runs < 1 /\ LoadOk(None, None, None)
    \/ \E fd \in AnyMir : Ready(MaxWaferRecords) /\ OnMir(fd)
    \/ Ready(MaxWaferRecords) /\ OnWir(WaferWir)
    \/ Ready(MaxWaferRecords) /\ OnWrr(WaferWrr)
    \/ Ready(MaxWaferRecords) /\ OnPrr(WaferPrr)
    \/ EndOfStream

SpecWafer == Init /\ [][NextWafer]_vars

\* The positions of h that close a wafer context: wafer-end and lot-start.
WaferClosers(h) == {i \in 1..Len(h) : h[i].kind \in {"WRR", "MIR"}}

\* A wafer context is open after h: a wafer-start was processed under a
\* lot and neither a wafer-end nor a lot-start followed it.
WaferOpen(h) ==
    \E i \in 1..Len(h) :
        /\ h[i].kind = "WIR"
        /\ LastMir(h) \in 1..(i - 1)
        /\ \A j \in WaferClosers(h) : j < i

\* A wafer-start was processed under the current lot, whether or not a
\* wafer-end followed it.
WaferSeen(h) ==
    \E i \in 1..Len(h) : h[i].kind = "WIR" /\ LastMir(h) \in 1..(i - 1)

\* C8: a Die's wafer reference is non-null if and only if a wafer context
\* was open when its part-end record was processed, a context being open
\* from a wafer-start until the next wafer-end or lot-start.
C8_DieWaferIffContextOpen ==
    [][ PartEndStep =>
          \A d \in NewDies : (d.wafer_id # None) <=> WaferOpen(hist) ]_vars

\* What the code does instead: the wafer reference is non-null if and only
\* if a wafer-start came after the last lot-start, wafer-end or not.
C8_DieWaferIffWaferSeen ==
    [][ PartEndStep =>
          \A d \in NewDies : (d.wafer_id # None) <=> WaferSeen(hist) ]_vars

---------------------------------------------------------------------------
(* SpecSuite: suite definitions before and after the parts whose results   *)
(* carry their test numbers                                                *)

MaxSuiteRecords == 5

SuiteTsrs == { TsrFd(Str("S"), Some(1), Str("P")),
               TsrFd(Str("T"), Some(1), Str("P")) }

SuitePtrs == { PtrFd(Some(1), FlagInt(0), Some(7)),
               PtrFd(Some(2), FlagInt(0), Some(8)) }

SuitePrr == PrrFd(Some(1), Some(1), Some(1), Some(1), Some(3), Some(4))

NextSuite ==
    \/ runs < 1 /\ LoadOk(None, None, None)
    \/ Ready(MaxSuiteRecords) /\ OnMir(MirA)
    \/ \E fd \in SuiteTsrs : Ready(MaxSuiteRecords) /\ OnTsr(fd)
    \/ \E fd \in SuitePtrs : Ready(MaxSuiteRecords) /\ OnPtr(fd)
    \/ Ready(MaxSuiteRecords) /\ OnPrr(SuitePrr)
    \/ EndOfStream

SpecSuite == Init /\ [][NextSuite]_vars

\* C10: the TestItems a part-end creates carry the suite the test-number
\* registry maps their test number to at that moment, null when it maps
\* none; a suite-definition record leaves every TestItem that exists when
\* it is processed as it is, suite reference included.
C10_SuiteResolvedAtFlush ==
    [][ /\ PartEndStep =>
             LET items == SelectSeq(pending', IsItem)
             IN  /\ Len(items) = Len(sink.ptr_ftr_buffer)
                 /\ \A n \in 1..Len(items) :
                      items[n].row.test_suite_id =
                         SuiteOf(sink, items[n].row.test_num)
        /\ StepOf("TSR") =>
             IF FlushOk(db, pending)
             THEN Flushed(db', pending').test_item =
                     Flushed(db, pending).test_item
             ELSE db'.test_item = db.test_item /\ pending' = pending
      ]_vars

\* A result with test number 1 was flushed while the registry mapped 1 to
\* one suite, and a later suite-definition record mapped 1 to another: the
\* TestItem still refers to the first suite.
C10_Witness ==
    /\ phase = "parsing"
    /\ Len(hist) = 5
    /\ hist[2].kind = "TSR" /\ hist[3].kind = "PTR"
    /\ hist[4].kind = "PRR" /\ hist[5].kind = "TSR"
    /\ 1 \in DOMAIN sink.test_num_to_suite
    /\ \E r \in db.test_item :
          /\ r.test_num = 1
          /\ r.test_suite_id # None
          /\ r.test_suite_id # Some(sink.test_num_to_suite[1])

---------------------------------------------------------------------------
(* SpecKeys: records that repeat the natural key of a row with other       *)
(* descriptive fields                                                      *)

MaxKeyRecords == 4

KeyMirs == { MirA, MirB,
             MirFd(Str("A"), Str("P"), Str("J"), Some(8), Str("U")) }

KeyWirs == { WirFd(Str("W"), Some(1), Some(6)),
             WirFd(Str("W"), Some(1), Some(7)) }

KeyTsrs == { TsrFd(Str("S"), Some(1), Str("P")),
             TsrFd(Str("T"), Some(1), Str("F")) }

KeySdrs == { SdrFd(Some(1), None, Str("H")),
             SdrFd(Some(1), None, Str("G")) }

NextKeys ==
    \/ runs < 1 /\ LoadOk(None, None, None)
    \/ \E fd \in KeyMirs : Ready(MaxKeyRecords) /\ OnMir(fd)
    \/ \E fd \in KeyWirs : Ready(MaxKeyRecords) /\ OnWir(fd)
    \/ \E fd \in AnyWrr : Ready(MaxKeyRecords) /\ OnWrr(fd)
    \/ \E fd \in KeyTsrs : Ready(MaxKeyRecords) /\ OnTsr(fd)
    \/ \E fd \in KeySdrs : Ready(MaxKeyRecords) /\ OnSdr(fd)
    \/ EndOfStream

SpecKeys == Init /\ [][NextKeys]_vars

\* The tables whose rows are resolved by natural key.
KeyedTables ==
    {"company", "product", "stage", "test_program", "lot", "wafer",
     "test_suite", "test_definition", "site_equipment"}

\* The natural key of a row: the columns of its table's unique constraint.
NaturalKey(tbl, r) ==
    CASE tbl = "company"         -> <<r.name>>
      [] tbl = "product"         -> <<r.company_id, r.name>>
      [] tbl = "stage"           -> <<r.product_id, r.name>>
      [] tbl = "test_program"    -> <<r.stage_id, r.name, r.revision>>
      [] tbl = "lot"             -> <<r.test_program_id, r.lot_id>>
      [] tbl = "wafer"           -> <<r.lot_id, r.wafer_id, r.head_num>>
      [] tbl = "test_suite"      -> <<r.test_program_id, r.name>>
      [] tbl = "test_definition" -> <<r.test_program_id, r.test_num>>
      [] tbl = "site_equipment"  -> <<r.lot_id, r.head_num, r.site_grp>>

NoSharedKey(d) ==
    \A tbl \in KeyedTables : \A r1, r2 \in d[tbl] :
        NaturalKey(tbl, r1) = NaturalKey(tbl, r2) => r1 = r2

\* C11: no two rows of a keyed table share a natural key, and a lot-start,
\* wafer-start, suite-definition or site-description record leaves every
\* existing row of the keyed tables as it is: a record whose key matches a
\* row makes that row the current one and inserts none.
C11_NaturalKeysAreUnique ==
    [][ /\ NoSharedKey(db')
        /\ (\E k \in {"MIR", "WIR", "TSR", "SDR"} : StepOf(k)) =>
              \A tbl \in KeyedTables : db[tbl] \subseteq db'[tbl]
        /\ StepOf("MIR") =>
              /\ RowOf(db'.lot, Val(sink'.lot)).lot_id = LotIdOf(StepFd)
              /\ (\E r \in db.lot :
                     NaturalKey("lot", r) =
                        NaturalKey("lot", RowOf(db'.lot, Val(sink'.lot))))
                 => db'.lot = db.lot
        /\ (StepOf("WIR") /\ sink.lot # None) =>
              /\ RowOf(db'.wafer, Val(sink'.wafer)).lot_id = Val(sink.lot)
              /\ (\E r \in db.wafer :
                     NaturalKey("wafer", r) =
                        NaturalKey("wafer", RowOf(db'.wafer, Val(sink'.wafer))))
                 => db'.wafer = db.wafer
      ]_vars

\* Two lot-starts with one key and two site descriptions with one key, their
\* other fields differing: one Lot and one SiteEquipment row, each as the
\* first record wrote it.
C11_Witness ==
    /\ phase = "parsing"
    /\ Len(hist) = 4
    /\ hist[1].kind = "MIR" /\ hist[2].kind = "SDR"
    /\ hist[3].kind = "MIR" /\ hist[4].kind = "SDR"
    /\ LotIdOf(hist[1].fd) = LotIdOf(hist[3].fd)
    /\ hist[1].fd.TSTR_TYP # hist[3].fd.TSTR_TYP
    /\ hist[2].fd.HAND_TYP # hist[4].fd.HAND_TYP
    /\ Cardinality(db.lot) = 1
    /\ Cardinality(db.site_equipment) = 1
    /\ \A r \in db.site_equipment : r.hand_typ = Val(hist[2].fd.HAND_TYP)
    /\ \A r \in db.lot : r.tstr_typ = Val(hist[1].fd.TSTR_TYP)

---------------------------------------------------------------------------
(* TestItem keys                                                           *)

\* The TestItem rows the session holds, flushed or pending, as
\* (die, test number, test type) keys with a tag that tells the rows apart.
ItemKeysHeld ==
    {<<"db", r.id, ItemKey(r)>> : r \in db.test_item} \cup
    {<<"pending", i, ItemKey(pending[i].row)>> : i \in PendingItems(pending)}

\* C12: the TestItems of a Die have pairwise distinct (test number, test
\* type) keys whatever results were buffered for its part, two results of
\* one kind with the same or no test number included, and flushing such a
\* buffer does not abort the run.
C12_ItemKeysDistinctAndNoAbort ==
    /\ \A a, b \in ItemKeysHeld : a[3] = b[3] => a = b
    /\ phase # "failed"

---------------------------------------------------------------------------
(* Part-end without part-start                                             *)

\* C13: a part-end record processed with a current lot and no current part
\* key still creates one Die from its own fields, and the results buffered
\* until then are discarded: the Die gets no TestItem from them.
C13_StaleResultsAreDiscarded ==
    [][ (PartEndStep /\ sink.current_die_key = None) =>
          /\ Cardinality(NewDies) = 1
          /\ \A d \in NewDies : /\ d.hard_bin = StepFd.HARD_BIN
                                /\ d.head_num = OrInt(StepFd.HEAD_NUM, 1)
                                /\ d.site_num = OrInt(StepFd.SITE_NUM, 1)
          /\ SelectSeq(pending', IsItem) = <<>>
      ]_vars

\* What the code does instead: the Die takes every buffered result.
C13_StaleResultsAreAttached ==
    [][ (PartEndStep /\ sink.current_die_key = None) =>
          /\ Cardinality(NewDies) = 1
          /\ Len(SelectSeq(pending', IsItem)) = Len(sink.ptr_ftr_buffer)
      ]_vars

---------------------------------------------------------------------------
(* End of stream with results still buffered                               *)

\* Record i of h was processed with a current lot.
UnderLot(h, i) == \E m \in 1..(i - 1) : h[m].kind = "MIR"

\* The part-end records of h that were processed with a current lot.
PartEnds(h) == {j \in 1..Len(h) : h[j].kind = "PRR" /\ UnderLot(h, j)}

\* Record k of h empties the result buffer.
EmptiesBuffer(h, k) ==
    \/ h[k].kind \in {"MIR", "PIR", "PRR"}
    \/ h[k].kind = "WIR" /\ UnderLot(h, k)

\* The result records of h that a part-end record took out of the buffer
\* and attached to its Die.
Materialized(h) ==
    {i \in 1..Len(h) :
        /\ h[i].kind \in {"PTR", "FTR"}
        /\ \E j \in PartEnds(h) :
              j > i /\ \A k \in (i + 1)..(j - 1) : ~EmptiesBuffer(h, k)}

\* C14: the commit at end of stream stores one Die per part-end record and
\* one TestItem per result a part-end attached; results still buffered
\* then, for a part that had its part-start but no part-end, give no Die
\* and no TestItem.
C14_TrailingBufferIsNotMaterialized ==
    [][ (phase = "parsing" /\ phase' = "committed") =>
          /\ Cardinality(committed'.die \ committed.die) =
                Cardinality(PartEnds(hist))
          /\ Cardinality(committed'.test_item \ committed.test_item) =
                Cardinality(Materialized(hist))
          /\ \A r \in committed'.test_item :
                \E d \in committed'.die : d.id = r.die_id
      ]_vars

\* A complete part with one result, then a part-start and a result with
\* no part-end: the committed store has the one Die and its one TestItem.
C14_Witness ==
    /\ phase = "committed"
    /\ Len(hist) = 6
    /\ hist[1].kind = "MIR" /\ hist[2].kind = "PIR" /\ hist[3].kind = "PTR"
    /\ hist[4].kind = "PRR" /\ hist[5].kind = "PIR" /\ hist[6].kind = "PTR"
    /\ sink.ptr_ftr_buffer # <<>>
    /\ Cardinality(committed.die) = 1
    /\ Cardinality(committed.test_item) = 1

---------------------------------------------------------------------------
(* SpecLotEnd: lot-end records followed by summary, suite-definition,      *)
(* site-description and part records                                       *)

MaxLotEndRecords == 4

LotEndMrrs == {MrrFd(Some(9)), MrrFd(Some(7))}

NextLotEnd ==
    \/ runs < 1 /\ LoadOk(None, None, None)
    \/ \E fd \in AnyMir : Ready(MaxLotEndRecords) /\ OnMir(fd)
    \/ \E fd \in LotEndMrrs : Ready(MaxLotEndRecords) /\ OnMrr(fd)
    \/ \E fd \in AnyHbr : Ready(MaxLotEndRecords) /\ OnHbr(fd)
    \/ \E fd \in AnyTsr : Ready(MaxLotEndRecords) /\ OnTsr(fd)
    \/ \E fd \in AnySdr : Ready(MaxLotEndRecords) /\ OnSdr(fd)
    \/ Ready(MaxLotEndRecords) /\ OnPrr(PartPrr)
    \/ EndOfStream

SpecLotEnd == Init /\ [][NextLotEnd]_vars

\* The Lot row the last lot-start record of h resolved to.
LotOfLastMir(d, h) ==
    CHOOSE r \in d.lot : r.lot_id = LotIdOf(h[LastMir(h)].fd)

\* A lot-end record was processed after the last lot-start of h.
LotEnded(h) == \E i \in (LastMir(h) + 1)..Len(h) : h[i].kind = "MRR"

\* C15: a lot-end record processed with a current lot writes that lot's
\* finish timestamp and nothing else, the current lot stays current, and
\* the suite-definition, site-description and part records after it give
\* rows of that same lot.
C15_LotEndKeepsCurrentLot ==
    [][ /\ (StepOf("MRR") /\ sink.lot # None) =>
              /\ sink' = sink
              /\ pending' = pending
              /\ RowOf(db'.lot, Val(sink.lot)) =
                    [RowOf(db.lot, Val(sink.lot)) EXCEPT
                        !.finish_t = StdfTimeToDatetime(StepFd.FINISH_T)]
              /\ \A r \in db.lot : r.id # Val(sink.lot) => r \in db'.lot
              /\ \A tbl \in DOMAIN db : tbl # "lot" => db'[tbl] = db[tbl]
        /\ (PartEndStep /\ LotEnded(hist)) =>
              /\ Cardinality(NewDies) = 1
              /\ \A d \in NewDies : d.lot_id = LotOfLastMir(db, hist).id
        /\ (StepOf("SDR") /\ LotEnded(hist) /\ LastMir(hist) > 0) =>
              \A r \in db'.site_equipment \ db.site_equipment :
                  r.lot_id = LotOfLastMir(db, hist).id
        /\ (StepOf("TSR") /\ LotEnded(hist) /\ LastMir(hist) > 0) =>
              \A r \in db'.test_suite \ db.test_suite :
                  r.test_program_id = LotOfLastMir(db, hist).test_program_id
      ]_vars

\* Lot-start, lot-end, then a site description and a part-end: the lot
\* carries the finish timestamp, and the SiteEquipment row and the Die
\* belong to it.
C15_Witness ==
    /\ phase = "parsing"
    /\ Len(hist) = 4
    /\ hist[1].kind = "MIR" /\ hist[2].kind = "MRR"
    /\ hist[3].kind = "SDR" /\ hist[4].kind = "PRR"
    /\ \E l \in db.lot :
          /\ l.finish_t = StdfTimeToDatetime(hist[2].fd.FINISH_T)
          /\ l.finish_t # None
          /\ sink.lot = Some(l.id)
          /\ \E d \in db.die : d.lot_id = l.id
          /\ \E e \in db.site_equipment : e.lot_id = l.id

---------------------------------------------------------------------------
(* Records before the first lot-start                                      *)

\* The sink fields a handler reads; head_num and site_num are only ever
\* written (lines 74-75, 348-349).
ScopeOf(s) == [k \in DOMAIN s \ {"head_num", "site_num"} |-> s[k]]

\* C16: a record of any kind but lot-start that is processed before the
\* first lot-start creates no row, and the first lot-start leaves the
\* store and every sink field a handler reads exactly as it would have
\* had it been the first record of the stream, so the rows the rest of
\* the stream produces are the same with or without the earlier records.
C16_RecordsBeforeFirstLotStartAreIgnored ==
    [][ /\ (phase = "parsing" /\ phase' = "parsing" /\ sink.lot = None
               /\ ~StepOf("MIR")) =>
              /\ db' = committed /\ pending' = <<>>
              /\ sink'.lot = None
        /\ (StepOf("MIR") /\ sink.lot = None) =>
              LET e == MirEffect(committed, NewSink(None, None, None), StepFd)
              IN  /\ db' = e.db
                  /\ pending' = <<>>
                  /\ ScopeOf(sink') = ScopeOf(e.sink)
      ]_vars

\* A result and a bin-summary record, then the first lot-start and a
\* part-end: the Die has no TestItem and its Bin has no name.
C16_Witness ==
    /\ phase = "parsing"
    /\ Len(hist) = 3
    /\ hist[1].kind \in {"PTR", "HBR"}
    /\ hist[2].kind = "MIR"
    /\ hist[3].kind = "PRR"
    /\ hist[3].fd.HARD_BIN # None
    /\ Cardinality(db.die) = 1
    /\ \A i \in 1..Len(pending) :
          /\ pending[i].tbl # "test_item"
          /\ pending[i].tbl = "bin" => pending[i].row.hard_bin_name = <<>>

---------------------------------------------------------------------------
(* Reopening a wafer                                                       *)

\* The (wafer identifier, head) part of the key _on_wir looks a wafer up by.
WaferKeyOf(fd) ==
    << OrDefault(Strip(OrStr(fd.WAFER_ID)), UnknownWaferName),
       OrInt(fd.HEAD_NUM, 1) >>

\* The Wafer rows of lot l with the key of wafer-start record fd.
WafersWithKey(d, l, fd) ==
    {r \in d.wafer : r.lot_id = l /\ <<r.wafer_id, r.head_num>> = WaferKeyOf(fd)}

\* The position in h of its last wafer-start record, 0 when there is none.
LastWir(h) ==
    IF \E i \in 1..Len(h) : h[i].kind = "WIR"
    THEN MaxOf({i \in 1..Len(h) : h[i].kind = "WIR"}) ELSE 0

\* C17: a wafer-start record whose (lot, wafer identifier, head) key is
\* that of an existing Wafer row, closed or not, makes that row the current
\* wafer and leaves the Wafer table as it is; the Dies created while that
\* wafer context is open reference that row.
C17_WaferReopenResumesTheRow ==
    [][ /\ (StepOf("WIR") /\ sink.lot # None
               /\ WafersWithKey(db, Val(sink.lot), StepFd) # {}) =>
              /\ db'.wafer = db.wafer
              /\ \E r \in WafersWithKey(db, Val(sink.lot), StepFd) :
                    sink'.wafer = Some(r.id)
        /\ (PartEndStep /\ WaferOpen(hist)) =>
              \A d \in NewDies :
                 \E r \in WafersWithKey(db, Val(sink.lot),
                                        hist[LastWir(hist)].fd) :
                    d.wafer_id = Some(r.id)
        /\ \A l \in {r.lot_id : r \in db'.wafer} : \A fd \in {WaferWir} :
              Cardinality(WafersWithKey(db', l, fd)) <= 1
      ]_vars

\* Wafer-start, wafer-end, the same wafer-start again and a part-end: one
\* Wafer row, closed by the wafer-end, and the Die references it.
C17_Witness ==
    /\ phase = "parsing"
    /\ Len(hist) = 5
    /\ hist[1].kind = "MIR" /\ hist[2].kind = "WIR" /\ hist[3].kind = "WRR"
    /\ hist[4].kind = "WIR" /\ hist[5].kind = "PRR"
    /\ Cardinality(db.wafer) = 1
    /\ \A w \in db.wafer :
          /\ w.finish_t # None
          /\ sink.wafer = Some(w.id)
          /\ \E d \in db.die : d.wafer_id = Some(w.id)

---------------------------------------------------------------------------
(* Dies                                                                    *)

\* C18: a part-end record processed with a current lot inserts exactly one
\* Die, no step of a run that goes on or commits changes or removes a Die
\* the session holds, and the Dies of the run are as many as the part-end
\* records processed with a current lot, in the session and after the
\* commit.
C18_OneDiePerPartEnd ==
    [][ /\ PartEndStep => Cardinality(NewDies) = 1
        /\ (StepOf("PRR") /\ sink.lot = None) => db'.die = db.die
        /\ (phase = "parsing" /\ phase' \in {"parsing", "committed"}) =>
              /\ db.die \subseteq db'.die
              /\ Cardinality(db'.die \ committed.die) =
                    Cardinality(PartEnds(hist'))
        /\ (phase = "parsing" /\ phase' = "committed") =>
              committed'.die = db.die
      ]_vars

\* Lot-start and two part-ends for the same head and site, committed: two
\* Dies.
C18_Witness ==
    /\ phase = "committed"
    /\ Len(hist) = 3
    /\ hist[1].kind = "MIR"
    /\ hist[2].kind = "PRR"
    /\ hist[3] = hist[2]
    /\ Cardinality(committed.die) = 2

---------------------------------------------------------------------------
(* Recoverable irregularities                                              *)

\* Record i of h is a result received while a part is open: a part-start
\* precedes it with no part-end, lot-start or wafer-start in between.
InOpenPart(h, i) ==
    /\ h[i].kind \in {"PTR", "FTR"}
    /\ \E p \in 1..(i - 1) :
          /\ h[p].kind = "PIR"
          /\ \A k \in (p + 1)..(i - 1) :
                h[k].kind \notin {"PIR", "PRR", "MIR", "WIR"}

\* Results i < j of h belong to the same open part.
SamePart(h, i, j) ==
    /\ InOpenPart(h, i) /\ InOpenPart(h, j)
    /\ \A k \in (i + 1)..(j - 1) :
          h[k].kind \notin {"PIR", "PRR", "MIR", "WIR"}

\* The (test number, kind) key _on_prr gives the TestItem of a result.
ResultKey(r) == <<OrInt(r.fd.TEST_NUM, 0), r.kind>>

\* Every part of h is well formed: its results carry pairwise distinct
\* keys. What h holds besides (part-ends without part-start, results
\* outside an open part, trailing results) is recoverable.
OnlyRecoverable(h) ==
    \A i, j \in 1..Len(h) :
        (i < j /\ SamePart(h, i, j)) => ResultKey(h[i]) # ResultKey(h[j])

\* Every result of h was received while a part was open.
NoResultOutsidePart(h) ==
    \A i \in 1..Len(h) : h[i].kind \in {"PTR", "FTR"} => InOpenPart(h, i)

\* C19: a stream whose only irregularities are part-ends without
\* part-start, results outside an open part and trailing buffered results
\* never puts the run into the aborted state.
C19_RecoverableConditionsNeverAbort ==
    [][ (phase = "parsing" /\ OnlyRecoverable(hist')) => phase' # "failed" ]_vars

\* The same with no result outside an open part: the run never aborts.
C19_NoAbortWithoutStaleResults ==
    [][ (phase = "parsing" /\ OnlyRecoverable(hist')
            /\ NoResultOutsidePart(hist')) => phase' # "failed" ]_vars

---------------------------------------------------------------------------
(* The scope a lot-start opens                                             *)

\* C20: right after a lot-start record is processed, whatever the sink
\* held before, the current lot is the Lot with that record's lot
\* identifier under the program the record resolved, no wafer is current,
\* no part key is set, the result buffer is empty and the hard-bin,
\* soft-bin and test-number registries are empty.
C20_LotStartOpensFreshScope ==
    [][ StepOf("MIR") =>
          /\ sink'.lot # None
          /\ \E r \in db'.lot :
                /\ sink'.lot = Some(r.id)
                /\ r.lot_id = LotIdOf(StepFd)
                /\ sink'.test_program = Some(r.test_program_id)
          /\ sink'.wafer = None
          /\ sink'.wafer_id_current = None
          /\ sink'.current_die = None
          /\ sink'.current_die_key = None
          /\ sink'.ptr_ftr_buffer = <<>>
          /\ sink'.hard_bin_names = EmptyMap
          /\ sink'.soft_bin_names = EmptyMap
          /\ sink'.test_num_to_suite = EmptyMap
      ]_vars

\* A lot-start, a wafer-start, and the same lot-start again: the lot is
\* the same row and no wafer is current.
C20_Witness ==
    /\ phase = "parsing"
    /\ Len(hist) = 3
    /\ hist[1].kind = "MIR"
    /\ hist[2].kind = "WIR"
    /\ hist[3] = hist[1]
    /\ Cardinality(db.lot) = 1
    /\ Cardinality(db.wafer) = 1
    /\ sink.lot # None
    /\ sink.wafer = None

---------------------------------------------------------------------------
(* SpecTsr: suite-definition records with and without a suite name, with   *)
(* and without a current program                                           *)

MaxTsrRecords == 4

BlankTsrs == { TsrFd(None, Some(2), Str("P")),
               TsrFd(Some(<<>>), Some(2), Str("P")),
               TsrFd(Some(<<" ", " ">>), Some(2), Str("P")) }

NamedTsrs == { TsrFd(Str("S"), Some(1), Str("P")),
               TsrFd(Some(<<" ", "T">>), Some(2), Str("P")) }

NextTsr ==
    \/ runs < 1 /\ LoadOk(None, None, None)
    \/ Ready(MaxTsrRecords) /\ OnMir(MirA)
    \/ \E fd \in BlankTsrs \cup NamedTsrs : Ready(MaxTsrRecords) /\ OnTsr(fd)
    \/ Ready(MaxTsrRecords) /\ OnPrr(PartPrr)
    \/ EndOfStream

SpecTsr == Init /\ [][NextTsr]_vars

\* The suite name of a suite-definition record is blank: missing, empty
\* or whitespace only.
BlankSuiteName(fd) ==
    \/ fd.SEQ_NAME = None
    \/ \A i \in 1..Len(Val(fd.SEQ_NAME)) : Val(fd.SEQ_NAME)[i] = " "

\* C21: a suite-definition record with a blank suite name, or processed
\* with no current TestProgram, creates no TestSuite and no
\* TestDefinition and leaves the test-number registry, and everything
\* else, as it is.
C21_BlankSuiteDefinitionIsIgnored ==
    [][ (StepOf("TSR") /\ (BlankSuiteName(StepFd) \/ sink.test_program = None)) =>
          /\ db' = db
          /\ pending' = pending
          /\ sink' = sink
      ]_vars

\* A named suite definition for test 1, then a whitespace-named one for
\* test 2: one TestSuite, one TestDefinition, and only test 1 registered.
C21_Witness ==
    /\ phase = "parsing"
    /\ Len(hist) = 3
    /\ hist[1].kind = "MIR"
    /\ hist[2].kind = "TSR" /\ ~BlankSuiteName(hist[2].fd)
    /\ hist[3].kind = "TSR" /\ hist[3].fd.SEQ_NAME = Some(<<" ", " ">>)
    /\ Cardinality(db.test_suite) = 1
    /\ Cardinality(db.test_definition) = 1
    /\ DOMAIN sink.test_num_to_suite = {1}

---------------------------------------------------------------------------
(* SpecDelete: a committed load of two lots, then Lots deleted through     *)
(* the ORM cascades of the schema                                          *)

\* Mutant: the delete of a Die does not cascade to its TestItems.
DeleteLotKeepingItems(d, l) ==
    LET wafers == {r \in d.wafer : r.lot_id = l}
        dies   == {r \in d.die : r.lot_id = l
                                 \/ r.wafer_id \in {Some(w.id) : w \in wafers}}
    IN  [d EXCEPT !.lot = {r \in @ : r.id # l},
                  !.wafer = @ \ wafers,
                  !.die = @ \ dies,
                  !.bin = {r \in @ : r.die_id \notin {x.id : x \in dies}},
                  !.site_equipment = {r \in @ : r.lot_id # l}]

\* session.delete(lot) and flush: the relationships of Lot, Wafer and Die
\* carry cascade="all, delete-orphan" (Lot.wafers, Lot.dies,
\* Lot.site_equipment, Wafer.dies, Die.bin_record, Die.test_items); no
\* relationship leads from a Lot to TestSuite or TestDefinition.
DeleteLot(d, l) ==
    LET wafers == {r \in d.wafer : r.lot_id = l}
        dies   == {r \in d.die : r.lot_id = l
                                 \/ r.wafer_id \in {Some(w.id) : w \in wafers}}
    IN  [d EXCEPT !.lot = {r \in @ : r.id # l},
                  !.wafer = @ \ wafers,
                  !.die = @ \ dies,
                  !.bin = {r \in @ : r.die_id \notin {x.id : x \in dies}},
                  !.test_item = {r \in @ : r.die_id \notin {x.id : x \in dies}},
                  !.site_equipment = {r \in @ : r.lot_id # l}]

\* A caller deletes Lot l of the committed store and commits.
DeleteLotCommitted(l) ==
    /\ phase = "committed"
    /\ l \in {r.id : r \in committed.lot}
    /\ committed' = DeleteLot(committed, l)
    /\ db' = DeleteLot(committed, l)
    /\ UNCHANGED <<phase, runs, pending, sink, hist, peers, time_t_bits>>

\* The position of a record kind in the stream of one lot.
Rank(kind) ==
    CASE kind = "MIR" -> 0 [] kind = "TSR" -> 1 [] kind = "SDR" -> 2
      [] kind = "WIR" -> 3 [] kind = "PTR" -> 4 [] kind = "PRR" -> 5

\* The stream so far can go on with a record of this kind: the records of
\* a lot come in the order TSR, SDR, WIR, PTR, PRR.
Follows(kind) == hist # <<>> /\ Rank(Last(hist).kind) < Rank(kind)

NextDelete ==
    \/ runs < 1 /\ LoadOk(None, None, None)
    \/ hist = <<>> /\ OnMir(MirA)
    \/ hist # <<>> /\ LastMir(hist) = 1 /\ OnMir(MirB)
    \/ \E fd \in AnyTsr : Follows("TSR") /\ OnTsr(fd)
    \/ \E fd \in AnySdr : Follows("SDR") /\ OnSdr(fd)
    \/ \E fd \in AnyWir : Follows("WIR") /\ OnWir(fd)
    \/ \E fd \in AnyPtr : Follows("PTR") /\ OnPtr(fd)
    \/ Follows("PRR") /\ OnPrr(PartPrr)
    \/ EndOfStream
    \/ \E l \in 1..2 : DeleteLotCommitted(l)

SpecDelete == Init /\ [][NextDelete]_vars

\* This step deleted Lot l from the committed store.
DeleteStep(l) ==
    /\ phase = "committed" /\ phase' = "committed"
    /\ l \in committed.lot /\ l \notin committed'.lot

\* Every foreign key of store d refers to a row of d.
NoDanglingReference(d) ==
    /\ \A r \in d.lot : \E x \in d.test_program : x.id = r.test_program_id
    /\ \A r \in d.wafer : \E x \in d.lot : x.id = r.lot_id
    /\ \A r \in d.die : /\ \E x \in d.lot : x.id = r.lot_id
                        /\ r.wafer_id # None =>
                              \E x \in d.wafer : x.id = Val(r.wafer_id)
    /\ \A r \in d.bin : \E x \in d.die : x.id = r.die_id
    /\ \A r \in d.test_item :
          /\ \E x \in d.die : x.id = r.die_id
          /\ r.test_suite_id # None =>
                \E x \in d.test_suite : x.id = Val(r.test_suite_id)
    /\ \A r \in d.site_equipment : \E x \in d.lot : x.id = r.lot_id
    /\ \A r \in d.test_suite :
          \E x \in d.test_program : x.id = r.test_program_id
    /\ \A r \in d.test_definition :
          /\ \E x \in d.test_program : x.id = r.test_program_id
          /\ \E x \in d.test_suite : x.id = r.test_suite_id

\* The Wafers, Dies, Bins, TestItems and SiteEquipment of Lot l are gone
\* from the committed store after this step, and those of other Lots are
\* all still there.
LotSubtreeRemoved(l) ==
    LET dies == {r \in committed.die : r.lot_id = l.id}
    IN  /\ committed'.lot = committed.lot \ {l}
        /\ committed'.wafer = {r \in committed.wafer : r.lot_id # l.id}
        /\ committed'.die = committed.die \ dies
        /\ committed'.bin =
              {r \in committed.bin : r.die_id \notin {x.id : x \in dies}}
        /\ committed'.test_item =
              {r \in committed.test_item : r.die_id \notin {x.id : x \in dies}}
        /\ committed'.site_equipment =
              {r \in committed.site_equipment : r.lot_id # l.id}

\* C22 as stated: deleting a Lot removes its Wafers, Dies, their Bins and
\* TestItems, its SiteEquipment and the TestSuites and TestDefinitions of
\* its program, and no remaining row references a removed row.
C22_LotDeleteRemovesSuites ==
    [][ \A l \in committed.lot : DeleteStep(l) =>
          /\ LotSubtreeRemoved(l)
          /\ \A r \in committed'.test_suite :
                r.test_program_id # l.test_program_id
          /\ \A r \in committed'.test_definition :
                r.test_program_id # l.test_program_id
          /\ NoDanglingReference(committed')
      ]_vars

\* C22, amended: deleting a Lot removes its Wafers, Dies, their Bins and
\* TestItems and its SiteEquipment; the TestSuites and TestDefinitions,
\* which belong to the TestProgram, all remain, as do the rows of other
\* Lots; no remaining row references a removed row.
C22_LotDeleteKeepsSuites ==
    [][ \A l \in committed.lot : DeleteStep(l) =>
          /\ LotSubtreeRemoved(l)
          /\ committed'.test_suite = committed.test_suite
          /\ committed'.test_definition = committed.test_definition
          /\ committed'.test_program = committed.test_program
          /\ NoDanglingReference(committed')
      ]_vars

\* Lot A with a suite, a site description, a wafer and a Die with a
\* TestItem, and Lot B with a Die, committed; Lot A deleted: Lot B and its
\* Die remain, and so does the suite.
C22_Witness ==
    /\ phase = "committed"
    /\ Len(hist) = 8
    /\ Cardinality(committed.lot) = 1
    /\ \A l \in committed.lot : l.lot_id = LotIdOf(MirB)
    /\ Cardinality(committed.die) = 1
    /\ committed.wafer = {}
    /\ committed.test_item = {}
    /\ committed.site_equipment = {}
    /\ Cardinality(committed.test_suite) = 1
    /\ Cardinality(committed.test_definition) = 1

---------------------------------------------------------------------------
(* SpecPeers: two load_stdf calls at once on one store, each resolving     *)
(* the Company of its first lot-start in its own session                   *)

\* The peers with run r in a new state.
PeerStep(r, st) ==
    /\ peers' = [peers EXCEPT !.run[r] = st]
    /\ UNCHANGED <<phase, runs, committed, db, pending, sink, hist,
                   time_t_bits>>

\* load_stdf builds the session and the sink (lines 486-493): the sink's
\* company name is the override or DEFAULT_COMPANY (line 61).
PeerLoad(r, company_name) ==
    /\ peers.run[r].phase = "idle"
    /\ PeerStep(r, [peers.run[r] EXCEPT
                       !.phase = "loaded",
                       !.name = OrDefault(OrStr(company_name), DEFAULT_COMPANY)])

\* The Company query of line 93: the session sees the committed rows.
PeerLookup(r) ==
    /\ peers.run[r].phase = "loaded"
    /\ PeerStep(r, [peers.run[r] EXCEPT
                       !.phase = "looked",
                       !.found = First({x \in peers.store :
                                           x.name = peers.run[r].name})])

\* Lines 94-98: the row found is used, or a Company is added and flushed
\* inside the session's transaction; the INSERT violates the unique name
\* when the other run has committed that name since the lookup.
PeerCreate(r) ==
    /\ peers.run[r].phase = "looked"
    /\ PeerStep(r, [peers.run[r] EXCEPT !.phase =
                       IF peers.run[r].found # None THEN "resolved"
                       ELSE IF \E x \in peers.store : x.name = peers.run[r].name
                            THEN "failed" ELSE "created"])

\* session.commit() at end of stream (line 501): the inserted Company
\* becomes durable unless the other run committed that name first, in
\* which case the unique constraint fails the transaction.
PeerCommit(r) ==
    /\ peers.run[r].phase \in {"created", "resolved"}
    /\ IF peers.run[r].phase = "created"
          /\ \E x \in peers.store : x.name = peers.run[r].name
       THEN PeerStep(r, [peers.run[r] EXCEPT !.phase = "failed"])
       ELSE /\ peers' =
                 [peers EXCEPT
                    !.run[r].phase = "committed",
                    !.store = IF peers.run[r].phase = "created"
                              THEN @ \cup {WithId([name |-> peers.run[r].name],
                                                  NextId(@))}
                              ELSE @]
            /\ UNCHANGED <<phase, runs, committed, db, pending, sink, hist,
                   time_t_bits>>

PeerCompanies == {None, Str("A"), Str("B")}

NextPeers ==
    \/ \E r \in 1..2 : \E c \in PeerCompanies : PeerLoad(r, c)
    \/ \E r \in 1..2 : PeerLookup(r)
    \/ \E r \in 1..2 : PeerCreate(r)
    \/ \E r \in 1..2 : PeerCommit(r)

SpecPeers == Init /\ [][NextPeers]_vars

\* C23: when two runs on one store resolve the same Company name, every
\* interleaving of their lookups, creates and commits leaves exactly one
\* Company with that name and fails neither run.
C23_SharedKeyRaceIsSerialised ==
    /\ \A r \in 1..2 : peers.run[r].phase # "failed"
    /\ \A x, y \in peers.store : x.name = y.name => x = y
    /\ (\A r \in 1..2 : peers.run[r].phase = "committed") =>
          \A r \in 1..2 : \E x \in peers.store : x.name = peers.run[r].name

\* What the code guarantees: the unique name keeps the table free of
\* duplicates, at the price of failing one of the two runs.
C23_NoDuplicateCompany ==
    \A x, y \in peers.store : x.name = y.name => x = y

---------------------------------------------------------------------------
(* SpecMissing: loads of paths that are no file or cannot be opened, before *)
(* and after a load that commits                                           *)

MaxMissingRecords == 2

MaxMissingRuns == 2

NextMissing ==
    \/ runs < MaxMissingRuns /\ LoadOk(None, None, None)
    \/ runs < MaxMissingRuns /\ LoadMissing
    \/ runs < MaxMissingRuns /\ LoadUnreadable(None, None, None)
    \/ Ready(MaxMissingRecords) /\ OnMir(MirA)
    \/ Ready(MaxMissingRecords) /\ OnMir(MirB)
    \/ Ready(MaxMissingRecords) /\ OnPrr(PartPrr)
    \/ EndOfStream

SpecMissing == Init /\ [][NextMissing]_vars

---------------------------------------------------------------------------
(* SpecFlush: parts with parametric and functional results, ended by      *)
(* part-end records with and without a hard bin                           *)

MaxFlushRecords == 5

FlushPtrs == { PtrFd(Some(1), FlagInt(FailBit), Some(7)),
               PtrFd(Some(2), FlagInt(0), Some(8)) }

NextFlush ==
    \/ runs < 1 /\ LoadOk(None, None, None)
    \/ Ready(MaxFlushRecords) /\ OnMir(MirA)
    \/ \E fd \in AnyPir : Ready(MaxFlushRecords) /\ OnPir(fd)
    \/ \E fd \in FlushPtrs : Ready(MaxFlushRecords) /\ OnPtr(fd)
    \/ \E fd \in AnyFtr : Ready(MaxFlushRecords) /\ OnFtr(fd)
    \/ \E fd \in AnyPrr : Ready(MaxFlushRecords) /\ OnPrr(fd)
    \/ EndOfStream

SpecFlush == Init /\ [][NextFlush]_vars

\* 1 when the part-end of the step carries a hard bin, else 0.
BinOffset == IF StepFd.HARD_BIN # None THEN 1 ELSE 0

\* C25: a part-end record with an active lot creates the Die (flushed, so
\* that its id exists), then its Bin row if the hard bin is present, then
\* one TestItem per buffered result in arrival order, each referencing the
\* new Die, and then empties the buffer and clears the part key; every
\* TestItem and Bin held by the session references a Die already in the
\* session's view of the store.
C25_PartEndOrder ==
    [][ /\ PartEndStep =>
              /\ Cardinality(NewDies) = 1
              /\ \A die \in NewDies :
                    /\ die.id \notin {r.id : r \in db.die}
                    /\ Len(pending') = BinOffset + Len(sink.ptr_ftr_buffer)
                    /\ BinOffset = 1 =>
                          /\ pending'[1].tbl = "bin"
                          /\ pending'[1].row.die_id = die.id
                          /\ pending'[1].row.hard_bin = StepFd.HARD_BIN
                    /\ \A i \in 1..Len(sink.ptr_ftr_buffer) :
                          LET e  == sink.ptr_ftr_buffer[i]
                              ti == pending'[BinOffset + i]
                          IN  /\ ti.tbl = "test_item"
                              /\ ti.row.die_id = die.id
                              /\ ti.row.test_type = e.rec_type_name
                              /\ ti.row.test_num = OrInt(e.fd.TEST_NUM, 0)
              /\ sink'.ptr_ftr_buffer = <<>>
              /\ sink'.current_die_key = None
              /\ sink'.current_die = None
        /\ \A tbl \in {"test_item", "bin"} :
              \A r \in Held(db', pending', tbl) :
                  \E die \in db'.die : die.id = r.die_id
      ]_vars

\* A part-end with a hard bin has just flushed a functional result
\* followed by a parametric one: the session holds Bin, FTR item, PTR item
\* in that order.
C25_Witness ==
    /\ phase = "parsing"
    /\ hist # <<>>
    /\ Last(hist).kind = "PRR"
    /\ Len(pending) = 3
    /\ pending[1].tbl = "bin"
    /\ pending[2].tbl = "test_item" /\ pending[2].row.test_type = FTR
    /\ pending[3].tbl = "test_item" /\ pending[3].row.test_type = PTR
    /\ Cardinality(db.die) = 1
    /\ sink.ptr_ftr_buffer = <<>>
    /\ sink.current_die_key = None

---------------------------------------------------------------------------
(* SpecFlag: results whose test flag is missing, an integer or a byte     *)
(* list, with the fail bit set and cleared among other bits               *)

MaxFlagRecords == 4

AnyFlag == { None, FlagInt(0), FlagInt(64), FlagInt(FailBit + 1),
             FlagList(<<>>), FlagList(<<FailBit>>),
             FlagList(<<127, FailBit>>) }

NextFlag ==
    \/ runs < 1 /\ LoadOk(None, None, None)
    \/ Ready(MaxFlagRecords) /\ OnMir(MirA)
    \/ \E flg \in AnyFlag :
          Ready(MaxFlagRecords) /\ OnPtr(PtrFd(Some(1), flg, Some(7)))
    \/ \E flg \in AnyFlag :
          Ready(MaxFlagRecords) /\ OnFtr(FtrFd(Some(1), flg))
    \/ Ready(MaxFlagRecords) /\ OnPrr(PartPrr)
    \/ EndOfStream

SpecFlag == Init /\ [][NextFlag]_vars

\* The byte a result record's test flag carries: the integer, or the first
\* byte of a byte list (0 for an empty one).
FlagOf(fd) ==
    IF Val(fd.TEST_FLG).isList
    THEN (IF Val(fd.TEST_FLG).v = <<>> THEN 0 ELSE Head(Val(fd.TEST_FLG).v))
    ELSE Head(Val(fd.TEST_FLG).v)

\* C26: the pass/fail value of every TestItem, parametric or functional,
\* is 1 when bit 0x80 of its result's test flag is set, 0 when the flag is
\* present with that bit cleared, and null when the result carries no flag.
C26_PassFailFollowsFlagBit ==
    [][ PartEndStep =>
          /\ Len(pending') = 1 + Len(sink.ptr_ftr_buffer)
          /\ \A i \in 1..Len(sink.ptr_ftr_buffer) :
                LET fd == sink.ptr_ftr_buffer[i].fd
                    ti == pending'[1 + i].row
                IN  /\ fd.TEST_FLG = None => ti.pass_fail = None
                    /\ (fd.TEST_FLG # None /\ FlagOf(fd) >= 128) =>
                          ti.pass_fail = Some(1)
                    /\ (fd.TEST_FLG # None /\ FlagOf(fd) < 128) =>
                          ti.pass_fail = Some(0)
      ]_vars

\* The load committed a functional item that failed (flag 0x81) and a
\* parametric item that passed with other bits set (flag 0x40).
C26_Witness ==
    /\ phase = "committed"
    /\ \E a, b \in committed.test_item :
          /\ a.test_type = FTR /\ a.pass_fail = Some(1)
          /\ b.test_type = PTR /\ b.pass_fail = Some(0)
    /\ hist[2].fd.TEST_FLG = FlagInt(FailBit + 1)
    /\ hist[3].fd.TEST_FLG = FlagInt(64)

---------------------------------------------------------------------------
(* SpecHier: lot-start records with every combination of missing, blank   *)
(* and present lot id, part type, program name and test mode              *)

MaxHierRecords == 2

Blank == Some(<<" ">>)

HierMirs ==
    { [MirFd(l, p, j, None, None) EXCEPT !.MODE_COD = m] :
        l \in {None, Str("A")},
        p \in {None, Blank, Str("P")},
        j \in {None, Blank, Str("J")},
        m \in {None, Blank, Str("M")} }

NextHier ==
    \/ runs < 1 /\ LoadOk(None, None, None)
    \/ runs < 1 /\ LoadOk(Str("C"), Str("Q"), Str("S"))
    \/ \E fd \in HierMirs : Ready(MaxHierRecords) /\ OnMir(fd)
    \/ EndOfStream

SpecHier == Init /\ [][NextHier]_vars

\* A field that is missing or holds whitespace only.
IsBlank(o) == o = None \/ \A i \in 1..Len(Val(o)) : Val(o)[i] = " "

\* C27: a lot-start record never fails for missing fields and leaves a
\* chain Company -> Product -> Stage -> TestProgram -> Lot, each row keyed
\* under the one before it and all of them current in the sink; the
\* program of a blank or missing program name is "DefaultProgram", and in
\* a load without overrides the product of a blank or missing part type is
\* "DefaultProduct" and the stage of a blank or missing test mode is
\* "DefaultStage".
C27_LotStartResolvesHierarchy ==
    [][ (phase = "parsing" /\ Len(hist') = Len(hist) + 1
            /\ Last(hist').kind = "MIR") =>
          /\ phase' = "parsing"
          /\ \A tbl \in {"company", "product", "stage", "test_program", "lot"} :
                Cardinality(db'[tbl]) <= Cardinality(db[tbl]) + 1
          /\ \E c \in db'.company, p \in db'.product, g \in db'.stage,
                t \in db'.test_program, l \in db'.lot :
                /\ c.name = sink.company_name
                /\ p.company_id = c.id
                /\ g.product_id = p.id
                /\ t.stage_id = g.id
                /\ l.test_program_id = t.id
                /\ sink'.company = Some(c.id) /\ sink'.product = Some(p.id)
                /\ sink'.stage = Some(g.id) /\ sink'.test_program = Some(t.id)
                /\ sink'.lot = Some(l.id)
                /\ IsBlank(StepFd.JOB_NAM) => t.name = DefaultProgramName
                /\ ~IsBlank(StepFd.JOB_NAM) => t.name = Val(StepFd.JOB_NAM)
                /\ sink.product_name = <<>> =>
                      /\ IsBlank(StepFd.PART_TYP) => p.name = DefaultProductName
                      /\ ~IsBlank(StepFd.PART_TYP) => p.name = Val(StepFd.PART_TYP)
                /\ sink.stage_name = <<>> =>
                      /\ IsBlank(StepFd.MODE_COD) => g.name = DefaultStageName
                      /\ ~IsBlank(StepFd.MODE_COD) => g.name = Val(StepFd.MODE_COD)
      ]_vars

\* A load without overrides has processed a lot-start with every optional
\* field missing and one with whitespace-only names: one default chain
\* holds the one lot.
C27_Witness ==
    /\ phase = "parsing"
    /\ sink.product_name = <<>>
    /\ Len(hist) = 2
    /\ hist[1].fd.PART_TYP = None /\ hist[1].fd.JOB_NAM = None
    /\ hist[1].fd.MODE_COD = None /\ hist[1].fd.LOT_ID = None
    /\ hist[2].fd.PART_TYP = Blank /\ hist[2].fd.JOB_NAM = Blank
    /\ hist[2].fd.MODE_COD = Blank /\ hist[2].fd.LOT_ID = None
    /\ {r.name : r \in db.product} = {DefaultProductName}
    /\ {r.name : r \in db.stage} = {DefaultStageName}
    /\ {r.name : r \in db.test_program} = {DefaultProgramName}
    /\ {r.lot_id : r \in db.lot} = {UnknownLotName}

---------------------------------------------------------------------------
(* SpecTime: lot-start, wafer-start, wafer-end and lot-end records whose  *)
(* timestamp is missing, zero, an early count or the largest U4, on a     *)
(* platform with a 32-bit or a 64-bit time_t                              *)

MaxTimeRecords == 4

\* The largest U4, 2^32 - 1, as held in a 32-bit signed integer.
U4Max == -1

AnyTime == {None, Some(0), Some(5), Some(U4Max)}

InitTime ==
    /\ phase = "idle"
    /\ runs = 0
    /\ committed = EmptyDb
    /\ db = EmptyDb
    /\ pending = <<>>
    /\ sink = IdleSink
    /\ hist = <<>>
    /\ peers = IdlePeers
    /\ time_t_bits \in {32, 64}

NextTime ==
    \/ runs < 1 /\ LoadOk(None, None, None)
    \/ \E t \in AnyTime :
          Ready(MaxTimeRecords) /\ OnMir(MirFd(Str("A"), None, None, t, None))
    \/ \E t \in AnyTime :
          Ready(MaxTimeRecords) /\ OnWir(WirFd(Str("W"), Some(1), t))
    \/ \E t \in AnyTime :
          Ready(MaxTimeRecords) /\ OnWrr(WrrFd(t, None, None))
    \/ \E t \in AnyTime : Ready(MaxTimeRecords) /\ OnMrr(MrrFd(t))
    \/ EndOfStream

SpecTime == InitTime /\ [][NextTime]_vars

\* What the claim stores for a timestamp: null for a missing, zero or
\* out-of-range count, the instant of any other count.
StoredTime(val) ==
    IF val = None \/ Val(val) = 0 \/ TimeOverflows(val) THEN None
    ELSE Some([utc |-> Val(val)])

\* A record of the given kind is handed to the sink in this step.
Handing(kind) ==
    /\ phase = "parsing"
    /\ Len(hist') = Len(hist) + 1
    /\ Last(hist').kind = kind

\* C28: a record with a timestamp never aborts the load, and the row it
\* creates or closes holds null for a missing, zero or out-of-range
\* timestamp and the instant of any other.
C28_TimestampsNeverAbort ==
    [][ /\ Handing("MIR") =>
              /\ phase' = "parsing"
              /\ \A l \in db'.lot \ db.lot :
                    /\ l.setup_t = StoredTime(StepFd.SETUP_T)
                    /\ l.start_t = StoredTime(StepFd.START_T)
        /\ Handing("WIR") =>
              /\ phase' = "parsing"
              /\ \A w \in db'.wafer \ db.wafer :
                    w.start_t = StoredTime(StepFd.START_T)
        /\ Handing("WRR") =>
              /\ phase' = "parsing"
              /\ sink.wafer # None =>
                    RowOf(db'.wafer, Val(sink.wafer)).finish_t =
                        StoredTime(StepFd.FINISH_T)
        /\ Handing("MRR") =>
              /\ phase' = "parsing"
              /\ sink.lot # None =>
                    RowOf(db'.lot, Val(sink.lot)).finish_t =
                        StoredTime(StepFd.FINISH_T)
      ]_vars

\* C28, where time_t has 64 bits and every U4 is in range: the same
\* statement holds.
C28_TimestampsOnWideTimeT ==
    [][ time_t_bits = 64 =>
          /\ (Handing("MIR") \/ Handing("WIR") \/ Handing("WRR")
                 \/ Handing("MRR")) => phase' = "parsing"
          /\ Handing("MIR") =>
                \A l \in db'.lot \ db.lot :
                    /\ l.setup_t = StoredTime(StepFd.SETUP_T)
                    /\ l.start_t = StoredTime(StepFd.START_T)
          /\ Handing("WIR") =>
                \A w \in db'.wafer \ db.wafer :
                    w.start_t = StoredTime(StepFd.START_T)
          /\ (Handing("WRR") /\ sink.wafer # None) =>
                RowOf(db'.wafer, Val(sink.wafer)).finish_t =
                    StoredTime(StepFd.FINISH_T)
          /\ (Handing("MRR") /\ sink.lot # None) =>
                RowOf(db'.lot, Val(sink.lot)).finish_t =
                    StoredTime(StepFd.FINISH_T)
      ]_vars

---------------------------------------------------------------------------
(* SpecSiteless: bin-summary records that name a head and carry no site,  *)
(* followed by part-ends on that head                                     *)

MaxSitelessRecords == 4

SitelessHbrs ==
    { HbrFd(Some(1), None, Some(1), Str("G")),
      HbrFd(Some(AllSites), None, Some(1), Str("H")),
      HbrFd(Some(1), Some(1), Some(1), Str("P")) }

SitelessSbrs == {SbrFd(Some(1), None, Some(2), Str("T"))}

NextSiteless ==
    \/ runs < 1 /\ LoadOk(None, None, None)
    \/ Ready(MaxSitelessRecords) /\ OnMir(MirA)
    \/ \E fd \in SitelessHbrs : Ready(MaxSitelessRecords) /\ OnHbr(fd)
    \/ \E fd \in SitelessSbrs : Ready(MaxSitelessRecords) /\ OnSbr(fd)
    \/ \E fd \in BinNamePrrs : Ready(MaxSitelessRecords) /\ OnPrr(fd)
    \/ EndOfStream

SpecSiteless == Init /\ [][NextSiteless]_vars

\* The positions of h, after its last lot-start, of the summary records of
\* the kind that name the head, carry no site and name code c.
Siteless(h, kind, head, c) ==
    {i \in Registrations(h, kind, head, AllSites, c) : h[i].fd.SITE_NUM = None}

\* The name the claim resolves for code c of a die at (head, site): that of
\* the latest site-less summary record for the head, when no per-site name
\* is registered for (head, site).
SitelessName(h, kind, head, site, c) ==
    NameIn(h[MaxOf(Siteless(h, kind, head, c))])

\* C29: a die at (h, s) whose bin code has no per-site name registered for
\* (h, s) resolves to the name of the site-less summary record for head h.
C29_SitelessSummaryIsTheFallback ==
    [][ PartEndStep =>
          \A d \in NewDies : \A b \in NewBinsOf(d.id) :
            /\ ( /\ Registrations(hist, "HBR", d.head_num, d.site_num,
                                  d.hard_bin) = {}
                 /\ Siteless(hist, "HBR", d.head_num, d.hard_bin) # {} ) =>
                  b.hard_bin_name =
                      SitelessName(hist, "HBR", d.head_num, d.site_num,
                                   d.hard_bin)
            /\ ( /\ d.soft_bin # None
                 /\ Registrations(hist, "SBR", d.head_num, d.site_num,
                                  d.soft_bin) = {}
                 /\ Siteless(hist, "SBR", d.head_num, d.soft_bin) # {} ) =>
                  b.soft_bin_name =
                      SitelessName(hist, "SBR", d.head_num, d.site_num,
                                   d.soft_bin)
      ]_vars

---------------------------------------------------------------------------
(* SpecZero: per-site bin-summary records and part-ends with head and     *)
(* site numbers 0 and 1                                                   *)

MaxZeroRecords == 4

ZeroHbrs ==
    {HbrFd(Some(h), Some(s), Some(1), Str("Z")) : h \in 0..1, s \in 0..1}

ZeroSbrs == {SbrFd(Some(0), Some(1), Some(2), Str("T"))}

ZeroPrrs ==
    { PrrFd(Some(h), Some(s), Some(1), Some(2), Some(3), Some(4)) :
        h \in 0..1, s \in 0..1 }

NextZero ==
    \/ runs < 1 /\ LoadOk(None, None, None)
    \/ Ready(MaxZeroRecords) /\ OnMir(MirA)
    \/ \E fd \in ZeroHbrs : Ready(MaxZeroRecords) /\ OnHbr(fd)
    \/ \E fd \in ZeroSbrs : Ready(MaxZeroRecords) /\ OnSbr(fd)
    \/ \E fd \in ZeroPrrs : Ready(MaxZeroRecords) /\ OnPrr(fd)
    \/ EndOfStream

SpecZero == Init /\ [][NextZero]_vars

\* The name of the latest record of the kind that registered code c under
\* exactly (head, site) after the last lot-start.
PerSiteName(h, kind, head, site, c) ==
    NameIn(h[MaxOf(Registrations(h, kind, head, site, c))])

\* C30: for all head and site numbers carried by a part-end record, 0
\* included, the Die stores that head and site, and a name registered per
\* site for that head, site and bin code is the name its Bin resolves.
C30_HeadAndSiteAreKeptAsCarried ==
    [][ PartEndStep =>
          LET head == Val(StepFd.HEAD_NUM)
              site == Val(StepFd.SITE_NUM)
          IN  \A d \in NewDies :
                /\ d.head_num = head
                /\ d.site_num = site
                /\ \A b \in NewBinsOf(d.id) :
                      /\ Registrations(hist, "HBR", head, site,
                                       StepFd.HARD_BIN) # {} =>
                            b.hard_bin_name =
                                PerSiteName(hist, "HBR", head, site,
                                            StepFd.HARD_BIN)
                      /\ Registrations(hist, "SBR", head, site,
                                       StepFd.SOFT_BIN) # {} =>
                            b.soft_bin_name =
                                PerSiteName(hist, "SBR", head, site,
                                            StepFd.SOFT_BIN)
      ]_vars

\* C30 restricted to part-ends whose head and site are both nonzero.
C30_HoldsForNonzeroHeadAndSite ==
    [][ (PartEndStep /\ Val(StepFd.HEAD_NUM) # 0 /\ Val(StepFd.SITE_NUM) # 0) =>
          \A d \in NewDies :
                /\ d.head_num = Val(StepFd.HEAD_NUM)
                /\ d.site_num = Val(StepFd.SITE_NUM)
                /\ \A b \in NewBinsOf(d.id) :
                      Registrations(hist, "HBR", d.head_num, d.site_num,
                                    StepFd.HARD_BIN) # {} =>
                            b.hard_bin_name =
                                PerSiteName(hist, "HBR", d.head_num,
                                            d.site_num, StepFd.HARD_BIN)
      ]_vars

---------------------------------------------------------------------------
(* The test-number registry and the TestDefinition rows                   *)

\* The TestDefinition rows of the current program for test number n.
DefinitionsOf(n) ==
    {r \in db.test_definition :
        r.test_program_id = Val(sink.test_program) /\ r.test_num = n}

\* C31: every test number in the test-number registry maps to the suite
\* that the one TestDefinition row of the current program for that test
\* number references.
C31_RegistryAgreesWithDefinitions ==
    (phase = "parsing" /\ sink.test_program # None) =>
        \A n \in DOMAIN sink.test_num_to_suite :
            /\ Cardinality(DefinitionsOf(n)) = 1
            /\ \A r \in DefinitionsOf(n) :
                  r.test_suite_id = sink.test_num_to_suite[n]

\* C31 for loads, on an empty store, in which no test number is defined
\* under two suite names: the registry and the TestDefinition rows agree.
C31_HoldsForOneSuitePerTestNumber ==
    (phase = "parsing" /\ sink.test_program # None
        /\ \A i, j \in 1..Len(hist) :
              (hist[i].kind = "TSR" /\ hist[j].kind = "TSR") =>
                  hist[i].fd.SEQ_NAME = hist[j].fd.SEQ_NAME) =>
        \A n \in DOMAIN sink.test_num_to_suite :
            /\ Cardinality(DefinitionsOf(n)) = 1
            /\ \A r \in DefinitionsOf(n) :
                  r.test_suite_id = sink.test_num_to_suite[n]

---------------------------------------------------------------------------
(* SpecClose: wafer-end records before a wafer-start, after one, and      *)
(* after an earlier wafer-end                                             *)

MaxCloseRecords == 4

CloseWirs == {WirFd(Str("W"), Some(1), Some(6)), WirFd(Str("V"), Some(1), Some(6))}

CloseWrrs == {WrrFd(Some(9), Some(2), Some(1)), WrrFd(Some(7), Some(3), None)}

NextClose ==
    \/ runs < 1 /\ LoadOk(None, None, None)
    \/ Ready(MaxCloseRecords) /\ OnMir(MirA)
    \/ \E fd \in CloseWirs : Ready(MaxCloseRecords) /\ OnWir(fd)
    \/ \E fd \in CloseWrrs : Ready(MaxCloseRecords) /\ OnWrr(fd)
    \/ EndOfStream

SpecClose == Init /\ [][NextClose]_vars

\* The Wafer row r with the finish timestamp and the counts of a wafer-end
\* record written onto it, a missing count leaving the stored one.
ClosedBy(r, fd) ==
    [r EXCEPT !.finish_t = IF fd.FINISH_T = None \/ fd.FINISH_T = Some(0)
                           THEN None ELSE Some([utc |-> Val(fd.FINISH_T)]),
              !.part_cnt = IF fd.PART_CNT = None THEN @ ELSE fd.PART_CNT,
              !.good_cnt = IF fd.GOOD_CNT = None THEN @ ELSE fd.GOOD_CNT]

\* C32: a wafer-end record processed with no wafer context open, before
\* any wafer-start of the lot or after an earlier wafer-end, changes no
\* Wafer row; with a wafer open it writes finish timestamp and counts onto
\* that wafer only.
C32_WaferEndWritesOnlyAnOpenWafer ==
    [][ StepOf("WRR") =>
          IF WaferOpen(hist)
          THEN /\ sink.wafer # None
               /\ db'.wafer =
                     {IF r.id = Val(sink.wafer) THEN ClosedBy(r, StepFd) ELSE r :
                         r \in db.wafer}
          ELSE db'.wafer = db.wafer
      ]_vars

\* What the code does: a wafer-end writes onto the wafer of the last
\* wafer-start of the lot, closed or not, and onto none before the first.
C32_WaferEndWritesTheLastWafer ==
    [][ StepOf("WRR") =>
          IF WaferSeen(hist)
          THEN /\ sink.wafer # None
               /\ db'.wafer =
                     {IF r.id = Val(sink.wafer) THEN ClosedBy(r, StepFd) ELSE r :
                         r \in db.wafer}
          ELSE db'.wafer = db.wafer
      ]_vars

---------------------------------------------------------------------------
(* SpecOther: records of unrecognized kinds inside a lot, a wafer and an  *)
(* open part, with names and suites registered                            *)

MaxOtherRecords == 5

RecognizedKinds ==
    {"MIR", "MRR", "WIR", "WRR", "PIR", "PRR", "PTR", "FTR", "HBR", "SBR",
     "TSR", "SDR"}

OtherKinds == {"BPS", "DTR"}

NextOther ==
    \/ runs < 1 /\ LoadOk(None, None, None)
    \/ Ready(MaxOtherRecords) /\ OnMir(MirA)
    \/ Ready(MaxOtherRecords) /\ OnWir(WaferWir)
    \/ \E fd \in AnyPir : Ready(MaxOtherRecords) /\ OnPir(fd)
    \/ \E fd \in AnyPtr : Ready(MaxOtherRecords) /\ OnPtr(fd)
    \/ \E fd \in AnyHbr : Ready(MaxOtherRecords) /\ OnHbr(fd)
    \/ \E fd \in AnyTsr : Ready(MaxOtherRecords) /\ OnTsr(fd)
    \/ Ready(MaxOtherRecords) /\ OnPrr(PartPrr)
    \/ \E kind \in OtherKinds : Ready(MaxOtherRecords) /\ OnOther(kind)
    \/ EndOfStream

SpecOther == Init /\ [][NextOther]_vars

\* C33: a record of a kind outside the twelve recognized kinds leaves the
\* sink's context (lot, wafer, part key, buffer, registries), the session's
\* view and pending rows, and the store unchanged, and the load goes on.
C33_UnrecognizedKindsChangeNothing ==
    [][ (phase = "parsing" /\ Len(hist') = Len(hist) + 1
            /\ Last(hist').kind \notin RecognizedKinds) =>
          /\ phase' = "parsing"
          /\ sink' = sink
          /\ db' = db
          /\ pending' = pending
          /\ committed' = committed
      ]_vars

\* An unrecognized record has just been processed inside a lot and a wafer
\* with a part open and a result buffered, and all of it is still there.
C33_Witness ==
    /\ phase = "parsing"
    /\ Len(hist) = 5
    /\ hist[5].kind \in OtherKinds
    /\ sink.lot # None
    /\ sink.wafer # None
    /\ sink.current_die_key # None
    /\ Len(sink.ptr_ftr_buffer) = 1

---------------------------------------------------------------------------
(* SpecMidPart: wafer-start records inside and outside an open part, with *)
(* and without an active lot                                              *)

MaxMidPartRecords == 6

NextMidPart ==
    \/ runs < 1 /\ LoadOk(None, None, None)
    \/ Ready(MaxMidPartRecords) /\ OnMir(MirA)
    \/ Ready(MaxMidPartRecords) /\ OnWir(WaferWir)
    \/ \E fd \in AnyPir : Ready(MaxMidPartRecords) /\ OnPir(fd)
    \/ \E fd \in FlushPtrs : Ready(MaxMidPartRecords) /\ OnPtr(fd)
    \/ Ready(MaxMidPartRecords) /\ OnPrr(PartPrr)
    \/ EndOfStream

SpecMidPart == Init /\ [][NextMidPart]_vars

\* The positions of h after its last wafer-start that hold a result.
ResultsSinceWir(h) ==
    {i \in (LastWir(h) + 1)..Len(h) : h[i].kind \in {"PTR", "FTR"}}

\* C34: a wafer-start with an active lot empties the result buffer and
\* clears the part key, so that the Die of a later part-end carries only
\* results received after it; a wafer-start with no active lot changes
\* nothing, the buffer included.
C34_WaferStartDiscardsOpenPart ==
    [][ /\ (StepOf("WIR") /\ sink.lot # None) =>
              /\ sink'.ptr_ftr_buffer = <<>>
              /\ sink'.current_die_key = None
              /\ sink'.current_die = None
              /\ db'.die = db.die
        /\ (StepOf("WIR") /\ sink.lot = None) =>
              /\ sink' = sink
              /\ db' = db
              /\ pending' = pending
        /\ (PartEndStep /\ LastWir(hist) > LastMir(hist)) =>
              /\ Len(SelectSeq(pending', IsItem)) = Len(sink.ptr_ftr_buffer)
              /\ Len(sink.ptr_ftr_buffer) <= Cardinality(ResultsSinceWir(hist))
              /\ \A i \in 1..Len(sink.ptr_ftr_buffer) :
                    \E j \in ResultsSinceWir(hist) :
                        hist[j].fd = sink.ptr_ftr_buffer[i].fd
      ]_vars

\* A part was opened and a result buffered, a wafer-start followed, then
\* another result and the part-end: the Die carries the second result only.
C34_Witness ==
    /\ phase = "parsing"
    /\ Len(hist) = 6
    /\ hist[1].kind = "MIR" /\ hist[2].kind = "PIR" /\ hist[3].kind = "PTR"
    /\ hist[4].kind = "WIR" /\ hist[5].kind = "PTR" /\ hist[6].kind = "PRR"
    /\ hist[3].fd.TEST_NUM = Some(1) /\ hist[5].fd.TEST_NUM = Some(2)
    /\ Cardinality(db.die) = 1
    /\ Len(pending) = 2
    /\ pending[2].tbl = "test_item" /\ pending[2].row.test_num = 2

---------------------------------------------------------------------------
(* Dies and their wafers across lots                                      *)

\* Every Die of store d that references a Wafer references one of its own
\* Lot.
WafersOfOwnLot(d) ==
    \A die \in d.die :
        die.wafer_id # None =>
            \E w \in d.wafer : w.id = Val(die.wafer_id) /\ w.lot_id = die.lot_id

\* C35: for every Die with a non-null wafer reference, in the session and
\* in the store, the referenced Wafer belongs to the Lot of the Die.
C35_DieWaferBelongsToDieLot ==
    WafersOfOwnLot(db) /\ WafersOfOwnLot(committed)

\* A wafer was open when the lot-start of another lot arrived; the part-end
\* right after it made a Die without wafer, and after a wafer-start of the
\* new lot the next Die references the new lot's wafer.
C35_Witness ==
    /\ phase = "parsing"
    /\ Len(hist) = 5
    /\ hist[1].kind = "MIR" /\ hist[2].kind = "WIR" /\ hist[3].kind = "MIR"
    /\ hist[4].kind = "PRR" /\ hist[5].kind = "WIR"
    /\ hist[1].fd.LOT_ID # hist[3].fd.LOT_ID
    /\ Cardinality(db.lot) = 2
    /\ Cardinality(db.wafer) = 2
    /\ \E die \in db.die : die.wafer_id = None /\ Some(die.lot_id) = sink.lot
    /\ \E w \in db.wafer : Some(w.id) = sink.wafer /\ Some(w.lot_id) = sink.lot

---------------------------------------------------------------------------
(* Bin names are fixed at the part-end                                    *)

\* The sink s with its two bin-name registries blanked out.
WithoutBinNames(s) ==
    [s EXCEPT !.hard_bin_names = EmptyMap, !.soft_bin_names = EmptyMap]

\* C36: the names of a Bin row are resolved from the registry as it stands
\* when the part-end is processed; a bin-summary record changes the
\* registry only: no Bin row, in the session, among the pending rows or in
\* the store, changes, and nothing else of the sink does.
C36_BinNamesAreFixedAtPartEnd ==
    [][ /\ PartEndStep =>
              \A b \in {pending'[i].row : i \in {j \in 1..Len(pending') :
                                                  pending'[j].tbl = "bin"}} :
                 /\ b.hard_bin_name =
                       GetBinName(sink.hard_bin_names,
                                  OrInt(StepFd.HEAD_NUM, 1),
                                  OrInt(StepFd.SITE_NUM, 1), b.hard_bin)
                 /\ b.soft_bin # None =>
                       b.soft_bin_name =
                           GetBinName(sink.soft_bin_names,
                                      OrInt(StepFd.HEAD_NUM, 1),
                                      OrInt(StepFd.SITE_NUM, 1), b.soft_bin)
        /\ (StepOf("HBR") \/ StepOf("SBR")) =>
              /\ db' = db
              /\ pending' = pending
              /\ committed' = committed
              /\ WithoutBinNames(sink') = WithoutBinNames(sink)
        /\ (phase = "parsing" /\ phase' = "committed") =>
              /\ db.bin \subseteq committed'.bin
              /\ \A i \in 1..Len(pending) :
                    pending[i].tbl = "bin" =>
                        \E r \in committed'.bin :
                            /\ r.die_id = pending[i].row.die_id
                            /\ r.hard_bin_name = pending[i].row.hard_bin_name
                            /\ r.soft_bin_name = pending[i].row.soft_bin_name
        /\ (phase = "parsing" /\ phase' = "parsing") => db.bin \subseteq db'.bin
      ]_vars

\* A Bin row was named "P" at its part-end; a later hard-bin summary
\* re-registered its code without a name, and the row still says "P".
C36_Witness ==
    /\ phase = "parsing"
    /\ Len(hist) = 4
    /\ hist[3].kind = "PRR" /\ hist[4].kind = "HBR"
    /\ Len(pending) = 1
    /\ pending[1].tbl = "bin"
    /\ pending[1].row.hard_bin_name = <<"P">>
    /\ GetBinName(sink.hard_bin_names, 1, 1, pending[1].row.hard_bin) = <<>>

---------------------------------------------------------------------------
(* Overrides of the caller                                                *)

\* The Product and the Stage a lot-start step has made current.
CurrentProduct == RowOf(db'.product, Val(sink'.product))

CurrentStage == RowOf(db'.stage, Val(sink'.stage))

\* C37: with a product override, a lot-start whose part type is blank
\* (missing, empty or whitespace only) resolves the Product of the override
\* name, and one whose part type is not blank the Product of the part type;
\* the same for Stage, test mode and stage override; the Company is the
\* one of the sink's company name.
C37_OverridesNameBlankFields ==
    [][ (StepOf("MIR") /\ sink.product_name # <<>> /\ sink.stage_name # <<>>) =>
          /\ IsBlank(StepFd.PART_TYP) => CurrentProduct.name = sink.product_name
          /\ ~IsBlank(StepFd.PART_TYP) =>
                CurrentProduct.name = Val(StepFd.PART_TYP)
          /\ IsBlank(StepFd.MODE_COD) => CurrentStage.name = sink.stage_name
          /\ ~IsBlank(StepFd.MODE_COD) =>
                CurrentStage.name = Val(StepFd.MODE_COD)
          /\ RowOf(db'.company, Val(sink'.company)).name = sink.company_name
      ]_vars

\* C37 for lot-starts whose part type and test mode are missing or not
\* blank: the overrides are used for the missing ones.
C37_HoldsForMissingFields ==
    [][ (StepOf("MIR") /\ sink.product_name # <<>> /\ sink.stage_name # <<>>
            /\ StepFd.PART_TYP # Blank /\ StepFd.MODE_COD # Blank) =>
          /\ StepFd.PART_TYP = None => CurrentProduct.name = sink.product_name
          /\ StepFd.PART_TYP # None =>
                CurrentProduct.name = Val(StepFd.PART_TYP)
          /\ StepFd.MODE_COD = None => CurrentStage.name = sink.stage_name
          /\ StepFd.MODE_COD # None =>
                CurrentStage.name = Val(StepFd.MODE_COD)
          /\ RowOf(db'.company, Val(sink'.company)).name = sink.company_name
      ]_vars

---------------------------------------------------------------------------
(* SpecPrograms: lot-starts of two test programs, each followed by suite  *)
(* definitions, results and part-ends                                     *)

MaxProgramRecords == 6

ProgramMirs == {MirA, MirFd(Str("B"), Str("P"), Str("K"), Some(5), Str("T"))}

NextPrograms ==
    \/ runs < 1 /\ LoadOk(None, None, None)
    \/ \E fd \in ProgramMirs : Ready(MaxProgramRecords) /\ OnMir(fd)
    \/ \E fd \in AnyTsr : Ready(MaxProgramRecords) /\ OnTsr(fd)
    \/ \E fd \in AnyPtr : Ready(MaxProgramRecords) /\ OnPtr(fd)
    \/ Ready(MaxProgramRecords) /\ OnPrr(PartPrr)
    \/ EndOfStream

SpecPrograms == Init /\ [][NextPrograms]_vars

\* In store d with pending rows p, every TestItem that references a suite
\* references one of the TestProgram of the Lot of its Die.
SuitesOfOwnProgram(d, p) ==
    \A r \in Held(d, p, "test_item") :
        r.test_suite_id # None =>
            \E s \in d.test_suite, die \in d.die, l \in d.lot :
                /\ s.id = Val(r.test_suite_id)
                /\ die.id = r.die_id
                /\ l.id = die.lot_id
                /\ s.test_program_id = l.test_program_id

\* C38: for every TestItem with a non-null suite reference, in the
\* session and in the store, the referenced TestSuite belongs to the
\* TestProgram of the Lot that owns the TestItem's Die.
C38_ItemSuiteBelongsToLotProgram ==
    SuitesOfOwnProgram(db, pending) /\ SuitesOfOwnProgram(committed, <<>>)

\* Two lot-starts of different programs, each followed by a definition of
\* the same suite name and test number; the item flushed under the second
\* references the second program's suite.
C38_Witness ==
    /\ phase = "parsing"
    /\ Len(hist) = 6
    /\ hist[1].kind = "MIR" /\ hist[2].kind = "TSR" /\ hist[3].kind = "MIR"
    /\ hist[4].kind = "TSR" /\ hist[5].kind = "PTR" /\ hist[6].kind = "PRR"
    /\ Cardinality(db.test_program) = 2
    /\ Cardinality(db.test_suite) = 2
    /\ \E i \in 1..Len(pending) :
          /\ pending[i].tbl = "test_item"
          /\ pending[i].row.test_suite_id # None
          /\ \E s \in db.test_suite :
                /\ Some(s.id) = pending[i].row.test_suite_id
                /\ Some(s.test_program_id) = sink.test_program

====
